---- MODULE Spec2Model ----
(***************************************************************************)
(* Budgeteer: transaction store, budget goals, forecast endpoint with its  *)
(* lru_cache, and the insights engine (anomaly detector, insight           *)
(* generators, financial health score).                                    *)
(*                                                                         *)
(* Dates are day numbers: day 1 is 2024-01-01 and day 0 is 2023-12-31.     *)
(* date.toordinal() differs from the day number by a constant, so the      *)
(* cache key uses the day number.                                          *)
(* Amounts are whole currency units; quotients (daily change, regression   *)
(* lines, weekly averages) are exact fractions <<num, den>>, so binary     *)
(* floating-point rounding is outside the model.                           *)
(***************************************************************************)
EXTENDS Integers, Sequences, FiniteSets, TLC

VARIABLES
    today,          \* date.today()
    now,            \* int(datetime.utcnow().timestamp())
    ML_AVAILABLE,   \* forecast.py: did "from models.forecasting import ..." succeed
    installed,      \* optional libraries importable at call time
    txs,            \* rows of table Tx
    nextId,         \* next autoincrement primary key of Tx
    cache,          \* lru_cache of cached_forecast, least recently used first
    last,           \* the request handled last and its response
    noData,         \* history: forecast requests answered 404 "No transactions"
    ops,            \* history: how many steps were taken
    goals,          \* rows of table BudgetGoal
    scores,         \* rows of table FinancialHealthScore, oldest first
    calls,          \* cached_forecast calls in flight, one per worker thread
    insights        \* rows of table Insight

vars == <<today, now, ML_AVAILABLE, installed, txs, nextId, cache, last, noData, ops,
         goals, scores, calls, insights>>

----------------------------------------------------------------------------
(* Bounds of the model *)

MaxOps == 3

(* Program constants *)

maxsize == 32
MinTransactions == 10
WindowDays == 90

Users == {1}
Models == {"linear", "rf", "mc", "catboost", "neuralprophet", "other"}
Libraries == {"catboost", "neuralprophet"}
HorizonRange == 1..30

NoSeries == <<>>

----------------------------------------------------------------------------
(* Calendar: datetime.date, timedelta and pandas.DateOffset(months=i) *)

IsLeap(y) == (y % 4 = 0 /\ y % 100 # 0) \/ y % 400 = 0

DaysInMonth(y, m) ==
    IF m = 2 THEN (IF IsLeap(y) THEN 29 ELSE 28)
    ELSE IF m \in {4, 6, 9, 11} THEN 30 ELSE 31

RECURSIVE DaysBeforeMonth(_, _)
DaysBeforeMonth(y, m) ==
    IF m = 1 THEN 0 ELSE DaysBeforeMonth(y, m - 1) + DaysInMonth(y, m - 1)

RECURSIVE DaysBeforeYear(_)
DaysBeforeYear(y) ==
    IF y = 2024 THEN 0
    ELSE IF y > 2024 THEN DaysBeforeYear(y - 1) + (IF IsLeap(y - 1) THEN 366 ELSE 365)
    ELSE DaysBeforeYear(y + 1) - (IF IsLeap(y) THEN 366 ELSE 365)

Ordinal(y, m, d) == DaysBeforeYear(y) + DaysBeforeMonth(y, m) + d

YearOf(n) == CHOOSE y \in 2020..2030 : DaysBeforeYear(y) < n /\ n <= DaysBeforeYear(y + 1)

MonthOf(n) ==
    LET y == YearOf(n)
        r == n - DaysBeforeYear(y)
    IN CHOOSE m \in 1..12 :
           DaysBeforeMonth(y, m) < r /\ r <= DaysBeforeMonth(y, m) + DaysInMonth(y, m)

DayOf(n) == n - DaysBeforeYear(YearOf(n)) - DaysBeforeMonth(YearOf(n), MonthOf(n))

\* (pd.Timestamp(d) + pd.DateOffset(months=k)).date(): same day of the month,
\* clipped to the end of the target month
AddMonths(n, k) ==
    LET y  == YearOf(n)
        m0 == (MonthOf(n) - 1) + k
        y2 == y + (m0 \div 12)
        m2 == (m0 % 12) + 1
        d  == DayOf(n)
        d2 == IF d > DaysInMonth(y2, m2) THEN DaysInMonth(y2, m2) ELSE d
    IN Ordinal(y2, m2, d2)

Day0 == Ordinal(2024, 1, 31)

----------------------------------------------------------------------------
(* Helpers over rows *)

RECURSIVE SumAmounts(_)
SumAmounts(S) ==
    IF S = {} THEN 0
    ELSE LET t == CHOOSE x \in S : TRUE IN t.amount + SumAmounts(S \ {t})

RECURSIVE SortedSeq(_)
SortedSeq(S) ==
    IF S = {} THEN <<>>
    ELSE LET m == CHOOSE x \in S : \A z \in S : x <= z
         IN <<m>> \o SortedSeq(S \ {m})

MaxOf(S) == CHOOSE x \in S : \A z \in S : z <= x

\* select(Tx).where(Tx.user_id == user_id)
UserTxs(T, u) == {t \in T : t.user_id = u}

Tx(id, u, d, a, l, r, sid) ==
    [id |-> id, user_id |-> u, tx_date |-> d, amount |-> a, label |-> l,
     recurring |-> r, series_id |-> sid]

NoPoints == <<>>
NoAnomalies == <<>>

Threads == {1, 2}
Idle == [state |-> "idle"]
NoCalls == [w \in Threads |-> Idle]

Response(op, u, status) ==
    [op |-> op, user |-> u, status |-> status, days |-> 0, model |-> "",
     points |-> NoPoints, computed |-> FALSE, anomalies |-> NoAnomalies,
     req |-> <<>>, body |-> <<>>, before |-> {}]

----------------------------------------------------------------------------
(* schemas.py TxIn.check_values *)

\* mutant: the amount is not looked at
TxInValid_AnyAmount(d, a, r, tdy) == ~(~r /\ d > tdy)

TxInValid(d, a, r, tdy) ==
    /\ a # 0
    /\ ~(~r /\ d > tdy)

(* transactions.py add_tx: the rows the request inserts *)
NewRows(id, u, d, a, l, r, sid) ==
    {Tx(id, u, d, a, l, r, sid)} \cup
    (IF r THEN {Tx(id + i, u, AddMonths(d, i), a, l, TRUE, sid) : i \in 1..3}
     ELSE {})

add_tx(u, d, a, l, r) ==
    /\ ops < MaxOps
    /\ ops' = ops + 1
    /\ LET req == [tx_id |-> nextId, tx_date |-> d, amount |-> a, label |-> l,
                   recurring |-> r, propagate |-> FALSE]
           answer(status) == [Response("add_tx", u, status) EXCEPT
                                 !.req = req, !.before = txs]
       IN IF TxInValid(d, a, r, today)
          THEN LET sid == IF r THEN <<now>> ELSE NoSeries
                   rows == NewRows(nextId, u, d, a, l, r, sid)
               IN /\ txs' = txs \cup rows
                  /\ nextId' = nextId + Cardinality(rows)
                  /\ last' = answer(200)
          ELSE /\ last' = answer(422)
               /\ UNCHANGED <<txs, nextId>>
    /\ UNCHANGED <<today, now, ML_AVAILABLE, installed, cache, noData, goals, scores, calls, insights>>

----------------------------------------------------------------------------
(* transactions.py _extend_recurring, list_tx, get_reminders *)

months == 3

\* the user's rows of one series
SeriesRows(T, u, sid) == {t \in T : t.series_id = sid /\ t.user_id = u}

\* select(Tx.series_id).where(user_id, recurring == True, series_id != None).distinct()
SeriesIds(T, u) ==
    {t.series_id : t \in {x \in T : x.user_id = u /\ x.recurring /\ x.series_id # NoSeries}}

\* txs[-1] of "order_by(Tx.tx_date)": a row with the latest date of the series
LastRows(T, u, sid) ==
    {t \in SeriesRows(T, u, sid) : \A x \in SeriesRows(T, u, sid) : x.tx_date <= t.tx_date}

\* last_date after j rounds of "+ pd.DateOffset(months=1)"
RECURSIVE MonthsLater(_, _)
MonthsLater(d, j) == IF j = 0 THEN d ELSE AddMonths(MonthsLater(d, j - 1), 1)

\* the dates the while loop of lines 38-51 appends to one series
Appended(T, u, sid, last_tx, tdy) ==
    LET future_count == Cardinality({t \in SeriesRows(T, u, sid) : t.tx_date > tdy})
    IN IF future_count >= months THEN <<>>
       ELSE [j \in 1..(months - future_count) |-> MonthsLater(last_tx.tx_date, j)]

\* the loop over series_ids; pick[sid] is the last row of series sid
RECURSIVE ExtendAll(_, _, _, _, _, _)
ExtendAll(T, id, u, sids, pick, tdy) ==
    IF sids = <<>> THEN [rows |-> T, nextId |-> id]
    ELSE LET sid == Head(sids)
             last_tx == pick[sid]
             dates == Appended(T, u, sid, last_tx, tdy)
             added == {Tx(id + j - 1, u, dates[j], last_tx.amount, last_tx.label, TRUE, sid) :
                          j \in 1..Len(dates)}
         IN ExtendAll(T \cup added, id + Len(dates), u, Tail(sids), pick, tdy)

\* series ids are compared as numbers
SeriesSeq(S) ==
    LET ns == SortedSeq({sid[1] : sid \in S})
    IN [i \in 1..Len(ns) |-> <<ns[i]>>]

\* _extend_recurring: the stores it can leave
ExtendRecurring(T, id, u, tdy) ==
    LET sids == SeriesIds(T, u)
        picks == {p \in [sids -> T] : \A sid \in sids : p[sid] \in LastRows(T, u, sid)}
    IN {ExtendAll(T, id, u, SeriesSeq(sids), p, tdy) : p \in picks}

list_tx(u) ==
    /\ ops < MaxOps
    /\ ops' = ops + 1
    /\ \E store \in ExtendRecurring(txs, nextId, u, today) :
          /\ txs' = store.rows
          /\ nextId' = store.nextId
          /\ last' = [Response("list_tx", u, 200) EXCEPT
                         !.body = UserTxs(store.rows, u), !.before = txs]
    /\ UNCHANGED <<today, now, ML_AVAILABLE, installed, cache, noData,
                   goals, scores, calls, insights>>

get_reminders(u, days) ==
    /\ ops < MaxOps
    /\ ops' = ops + 1
    /\ \E store \in ExtendRecurring(txs, nextId, u, today) :
          /\ txs' = store.rows
          /\ nextId' = store.nextId
          /\ last' = [Response("get_reminders", u, 200) EXCEPT
                         !.days = days,
                         !.body = {t \in UserTxs(store.rows, u) :
                                      /\ t.recurring
                                      /\ t.tx_date > today
                                      /\ t.tx_date <= today + days},
                         !.before = txs]
    /\ UNCHANGED <<today, now, ML_AVAILABLE, installed, cache, noData,
                   goals, scores, calls, insights>>

----------------------------------------------------------------------------
(* transactions.py update_tx, delete_tx *)

\* s.get(Tx, tx_id)
Lookup(T, tx_id) == {t \in T : t.id = tx_id}

NotFound(T, tx_id, u) == \A t \in Lookup(T, tx_id) : t.user_id # u

\* "if tx.series_id": the column is set
HasSeries(t) == t.series_id # NoSeries

\* mutant: un-recurring keeps the later occurrences
UpdatedRows_KeepLater(T, id, tx, d, a, l, r, propagate, u, sec) ==
    LET on == r /\ ~tx.recurring
        added == IF on
                 THEN {Tx(id + i - 1, u, AddMonths(d, i), a, l, TRUE, <<sec>>) : i \in 1..3}
                 ELSE {}
        series_id == IF tx.recurring /\ ~r THEN NoSeries
                     ELSE IF on THEN <<sec>> ELSE tx.series_id
        edited == [tx EXCEPT !.series_id = series_id, !.tx_date = d, !.amount = a,
                             !.label = l, !.recurring = r]
    IN (T \ {tx}) \cup {edited} \cup added

\* the rows after update_tx commits; the select of lines 126-130 flushes the
\* session first, so it sees the edited row and the rows added at lines 106-117
UpdatedRows(T, id, tx, d, a, l, r, propagate, u, sec) ==
    LET off == tx.recurring /\ ~r
        on == r /\ ~tx.recurring
        later == {f \in T : /\ f.series_id = tx.series_id /\ f.user_id = u
                            /\ f.tx_date > tx.tx_date}
        new_series == <<sec>>
        added == IF on
                 THEN {Tx(id + i - 1, u, AddMonths(d, i), a, l, TRUE, new_series) : i \in 1..3}
                 ELSE {}
        series_id == IF off THEN NoSeries ELSE IF on THEN new_series ELSE tx.series_id
        old_date == tx.tx_date
        delta == d - old_date
        edited == [tx EXCEPT !.series_id = series_id, !.tx_date = d, !.amount = a,
                             !.label = l, !.recurring = r]
        T2 == ((IF off THEN T \ later ELSE T) \ {tx}) \cup {edited} \cup added
        followers == {f \in T2 : /\ f.series_id = series_id /\ f.user_id = u
                                 /\ f.tx_date > old_date}
    IN IF propagate /\ series_id # NoSeries /\ r
       THEN (T2 \ followers) \cup
            {[f EXCEPT !.amount = a, !.label = l, !.tx_date = f.tx_date + delta] :
                f \in followers}
       ELSE T2

update_tx(tx_id, d, a, l, r, propagate, u) ==
    /\ ops < MaxOps
    /\ ops' = ops + 1
    /\ LET req == [tx_id |-> tx_id, tx_date |-> d, amount |-> a, label |-> l,
                   recurring |-> r, propagate |-> propagate]
           answer(status) == [Response("update_tx", u, status) EXCEPT
                                 !.req = req, !.before = txs]
       IN IF ~TxInValid(d, a, r, today)
          THEN /\ last' = answer(422)
               /\ UNCHANGED <<txs, nextId>>
          ELSE IF NotFound(txs, tx_id, u)
          THEN /\ last' = answer(404)
               /\ UNCHANGED <<txs, nextId>>
          ELSE LET tx == CHOOSE t \in Lookup(txs, tx_id) : TRUE
               IN /\ txs' = UpdatedRows(txs, nextId, tx, d, a, l, r, propagate, u, now)
                  /\ nextId' = IF r /\ ~tx.recurring THEN nextId + 3 ELSE nextId
                  /\ last' = answer(200)
    /\ UNCHANGED <<today, now, ML_AVAILABLE, installed, cache, noData,
                   goals, scores, calls, insights>>

\* mutant: only the row itself is deleted
Deleted_Single(T, tx, u) == {tx}

\* the rows delete_tx deletes
Deleted(T, tx, u) ==
    IF HasSeries(tx)
    THEN {f \in T : /\ f.series_id = tx.series_id /\ f.user_id = u
                    /\ f.tx_date >= tx.tx_date}
    ELSE {tx}

delete_tx(tx_id, u) ==
    /\ ops < MaxOps
    /\ ops' = ops + 1
    /\ LET answer(status) == [Response("delete_tx", u, status) EXCEPT
                                 !.req = [tx_id |-> tx_id], !.before = txs]
       IN IF NotFound(txs, tx_id, u)
          THEN /\ last' = answer(404)
               /\ txs' = txs
          ELSE LET tx == CHOOSE t \in Lookup(txs, tx_id) : TRUE
               IN /\ txs' = txs \ Deleted(txs, tx, u)
                  /\ last' = answer(204)
    /\ UNCHANGED <<today, now, ML_AVAILABLE, installed, nextId, cache, noData,
                   goals, scores, calls, insights>>

----------------------------------------------------------------------------
(* forecast.py _forecast_cached: aggregation *)

Rat(n, d) == <<n, d>>

\* df.groupby("tx_date")["amount"].sum().sort_index()
DailySums(T) ==
    LET ds == SortedSeq({t.tx_date : t \in T})
    IN [i \in 1..Len(ds) |->
           [tx_date |-> ds[i], amount |-> SumAmounts({t \in T : t.tx_date = ds[i]})]]

\* df.cumsum()
RECURSIVE CumSum(_, _)
CumSum(daily, i) ==
    IF i = 0 THEN 0 ELSE CumSum(daily, i - 1) + daily[i].amount

Running(T) ==
    LET daily == DailySums(T)
    IN [i \in 1..Len(daily) |->
           [tx_date |-> daily[i].tx_date, balance |-> CumSum(daily, i)]]

\* zip(future_dates, preds)
ZipPoints(dates, preds) ==
    LET n == IF Len(dates) < Len(preds) THEN Len(dates) ELSE Len(preds)
    IN [i \in 1..n |-> [tx_date |-> dates[i], predicted_balance |-> preds[i]]]

Ok(points) == [status |-> 200, points |-> points]
Err(code) == [status |-> code, points |-> NoPoints]

(* fallback branch, lines 36-59 *)

UseFallback(running, mlAvail) == ~mlAvail \/ Len(running) < 7

\* mutant: a single point is treated as a change from a zero balance
DailyChange_FromZero(running) ==
    LET n == Len(running)
    IN IF n < 2 THEN Rat(running[n].balance, 1)
       ELSE LET recent_days == IF 7 < n - 1 THEN 7 ELSE n - 1
            IN Rat(running[n].balance - running[n - recent_days].balance, recent_days)

\* daily_change as a fraction
DailyChange(running) ==
    LET n == Len(running)
    IN IF n < 2 THEN Rat(0, 1)
       ELSE LET recent_days == IF 7 < n - 1 THEN 7 ELSE n - 1
            IN Rat(running[n].balance - running[n - recent_days].balance, recent_days)

\* pd.date_range(date.today(), periods=days)
FallbackDates(tdy, days) == [i \in 1..days |-> tdy + (i - 1)]

\* current_balance + daily_change * (i + 1) for i in range(days)
FallbackPreds(running, days) ==
    LET current_balance == IF Len(running) > 0 THEN running[Len(running)].balance ELSE 0
        dc == DailyChange(running)
    IN [i \in 1..days |-> Rat(current_balance * dc[2] + dc[1] * i, dc[2])]

Fallback(running, days, tdy) ==
    IF days < 0 THEN {Err(500)}
    ELSE {Ok(ZipPoints(FallbackDates(tdy, days), FallbackPreds(running, days)))}

(* model branch, lines 61-104 *)

\* (running.index - base).days
DayIndex(running) == [i \in 1..Len(running) |-> running[i].tx_date - running[1].tx_date]

\* mutant: range(1, days)
ModelDates_OffByOne(running, days) ==
    [i \in 1..(days - 1) |-> running[Len(running)].tx_date + i]

\* [last_date + timedelta(days=i) for i in range(1, days + 1)]
ModelDates(running, days) == [i \in 1..days |-> running[Len(running)].tx_date + i]

RECURSIVE SeqSum(_, _)
SeqSum(f, i) == IF i = 0 THEN 0 ELSE SeqSum(f, i - 1) + f[i]

\* LinearRegression().fit(idx, running.values).predict(future_idx): the least squares line
LinearPreds(running, days) ==
    LET n   == Len(running)
        x   == DayIndex(running)
        y   == [i \in 1..n |-> running[i].balance]
        sx  == SeqSum(x, n)
        sy  == SeqSum(y, n)
        sxy == SeqSum([i \in 1..n |-> x[i] * y[i]], n)
        sxx == SeqSum([i \in 1..n |-> x[i] * x[i]], n)
        D   == n * sxx - sx * sx
        S   == n * sxy - sx * sy
    IN [i \in 1..days |-> Rat(sy * D + S * (n * (x[n] + i) - sx), n * D)]

Noise == {0, 1}

\* A tree ensemble predicts one leaf value for every index right of the training
\* range; which value depends on the (unseeded) fit.
TreePreds(running, days) ==
    LET n == Len(running)
    IN {[i \in 1..days |-> Rat(v, 1)] : v \in {running[n].balance, running[n - 1].balance}}

\* mean over 100 simulated paths of cumsum(normal(mu, sigma)) + last_balance
MonteCarloPreds(running, days) ==
    LET n     == Len(running)
        lastb == running[n].balance
        deltas == {running[1].balance} \cup
                  {running[i].balance - running[i - 1].balance : i \in 2..n}
        sigmaZero == Cardinality(deltas) = 1
    IN {[i \in 1..days |-> Rat(lastb * n + i * lastb + e * n, n)] :
            e \in (IF sigmaZero THEN {0} ELSE Noise)}

\* models/forecasting.py neuralprophet_predict
NeuralPreds(running, days) ==
    {[i \in 1..days |-> Rat(running[Len(running)].balance + e, 1)] : e \in Noise}

ModelBranch(running, days, model, mlAvail, inst) ==
    LET dates == ModelDates(running, days)
        fitted(P) == {Ok(ZipPoints(dates, p)) : p \in P}
    IN IF model = "rf" THEN
           (IF days <= 0 THEN {Err(500)} ELSE fitted(TreePreds(running, days)))
       ELSE IF model = "catboost" THEN
           (IF ~mlAvail THEN {Err(503)}
            ELSE IF "catboost" \notin inst THEN {Err(500)}
            ELSE IF days <= 0 THEN {Err(500), Ok(NoPoints)}
            ELSE fitted(TreePreds(running, days)))
       ELSE IF model = "neuralprophet" THEN
           (IF ~mlAvail THEN {Err(503)}
            ELSE IF "neuralprophet" \notin inst THEN {Err(500)}
            ELSE IF days <= 0 THEN {Err(500), Ok(NoPoints)}
            ELSE fitted(NeuralPreds(running, days)))
       ELSE IF model = "mc" THEN
           (IF days < 0 THEN {Err(500)} ELSE fitted(MonteCarloPreds(running, days)))
       ELSE
           (IF days <= 0 THEN {Err(500)} ELSE fitted({LinearPreds(running, days)}))

\* the outcomes one call of _forecast_cached can have
ForecastCached(T, days, model, tdy, mlAvail, inst) ==
    LET running == Running(T)
    IN IF UseFallback(running, mlAvail)
       THEN Fallback(running, days, tdy)
       ELSE ModelBranch(running, days, model, mlAvail, inst)

----------------------------------------------------------------------------
(* forecast.py cached_forecast: functools.lru_cache(maxsize=32) *)

\* mutant: the memoisation is bypassed
CacheHas_Never(c, key) == FALSE

CacheHas(c, key) == \E i \in 1..Len(c) : c[i].key = key

CacheGet(c, key) == (CHOOSE e \in {c[i] : i \in 1..Len(c)} : e.key = key).value

\* a hit makes the entry the most recently used
CacheTouch(c, key) ==
    SelectSeq(c, LAMBDA e : e.key # key) \o SelectSeq(c, LAMBDA e : e.key = key)

\* a miss stores the value, evicting the least recently used entry when full
CacheStore(c, key, value) ==
    LET c2 == Append(c, [key |-> key, value |-> value])
    IN IF Len(c2) > maxsize THEN Tail(c2) ELSE c2

(* forecast.py get_forecast *)

\* mutant: a minimum of two transactions is asked for
NoTransactions_Few(T) == Cardinality(T) < 2

NoTransactions(T) == T = {}

\* max(t.tx_date for t in txs).toordinal()
LastTs(T) == MaxOf({t.tx_date : t \in T})

CacheKey(u, days, model, T) == <<u, days, model, LastTs(T)>>

ForecastResponse(u, days, model, status, points, computed) ==
    [Response("forecast", u, status) EXCEPT
        !.days = days, !.model = model, !.points = points, !.computed = computed]

get_forecast(u, days, model) ==
    /\ ops < MaxOps
    /\ ops' = ops + 1
    /\ LET T == UserTxs(txs, u)
       IN IF NoTransactions(T)
          THEN /\ last' = ForecastResponse(u, days, model, 404, NoPoints, FALSE)
               /\ noData' = noData \cup {<<u, days, model>>}
               /\ cache' = cache
          ELSE LET key == CacheKey(u, days, model, T)
               IN IF CacheHas(cache, key)
                  THEN /\ cache' = CacheTouch(cache, key)
                       /\ last' = ForecastResponse(u, days, model, 200,
                                                   CacheGet(cache, key), FALSE)
                       /\ noData' = noData
                  ELSE \E out \in ForecastCached(T, days, model, today,
                                                 ML_AVAILABLE, installed) :
                          /\ cache' = IF out.status = 200
                                      THEN CacheStore(cache, key, out.points)
                                      ELSE cache
                          /\ last' = ForecastResponse(u, days, model, out.status,
                                                      out.points, TRUE)
                          /\ noData' = noData
    /\ UNCHANGED <<today, now, ML_AVAILABLE, installed, txs, nextId, goals, scores, calls, insights>>

----------------------------------------------------------------------------
(* forecast.py get_forecast on the worker threads of the server: the lookup in
   lru_cache, the call of _forecast_cached outside any lock, and the insertion
   of the result are separate steps *)

\* mutant: the result is inserted without looking for the key again
Inserted_Unchecked(c, key, value) == CacheStore(c, key, value)

\* lru_cache after the wrapped call returned: a key that another call added in
\* the meantime is left as it is
Inserted(c, key, value) ==
    IF CacheHas(c, key) THEN c ELSE CacheStore(c, key, value)

Free(w) == calls[w].state \in {"idle", "done"}

\* get_forecast up to the lookup: 404, a hit, or a miss that goes on to compute
forecast_lookup(w, u, days, model) ==
    /\ ops < MaxOps
    /\ ops' = ops + 1
    /\ Free(w)
    /\ LET T == UserTxs(txs, u)
       IN IF NoTransactions(T)
          THEN /\ last' = ForecastResponse(u, days, model, 404, NoPoints, FALSE)
               /\ noData' = noData \cup {<<u, days, model>>}
               /\ UNCHANGED <<cache, calls>>
          ELSE LET key == CacheKey(u, days, model, T)
               IN IF CacheHas(cache, key)
                  THEN /\ cache' = CacheTouch(cache, key)
                       /\ last' = ForecastResponse(u, days, model, 200,
                                                   CacheGet(cache, key), FALSE)
                       /\ UNCHANGED <<noData, calls>>
                  ELSE /\ calls' = [calls EXCEPT ![w] =
                                       [state |-> "computing", user |-> u, days |-> days,
                                        model |-> model, key |-> key, out |-> Err(0),
                                        read |-> 0]]
                       /\ UNCHANGED <<cache, last, noData>>
    /\ UNCHANGED <<today, now, ML_AVAILABLE, installed, txs, nextId, goals, scores, insights>>

\* _forecast_cached runs on thread w: its own select reads the rows the store
\* holds now; read is the ordinal of the latest date among them
forecast_compute(w) ==
    /\ calls[w].state = "computing"
    /\ \E out \in ForecastCached(UserTxs(txs, calls[w].user), calls[w].days, calls[w].model,
                                 today, ML_AVAILABLE, installed) :
          calls' = [calls EXCEPT ![w].state = "computed", ![w].out = out,
                                 ![w].read = LastTs(UserTxs(txs, calls[w].user))]
    /\ UNCHANGED <<today, now, ML_AVAILABLE, installed, txs, nextId, cache, last, noData,
                   ops, goals, scores, insights>>

\* the call returns on thread w: the result is inserted and sent, an exception
\* inserts nothing
forecast_return(w) ==
    /\ calls[w].state = "computed"
    /\ LET c == calls[w]
       IN /\ cache' = IF c.out.status = 200
                      THEN Inserted(cache, c.key, c.out.points)
                      ELSE cache
          /\ last' = ForecastResponse(c.user, c.days, c.model, c.out.status,
                                      c.out.points, TRUE)
    /\ calls' = [calls EXCEPT ![w].state = "done"]
    /\ UNCHANGED <<today, now, ML_AVAILABLE, installed, txs, nextId, noData,
                   ops, goals, scores, insights>>

----------------------------------------------------------------------------
(* insights_engine.py AnomalyDetector *)

Abs(x) == IF x < 0 THEN -x ELSE x

\* the rows of a select, in primary key order
TxSeq(S) ==
    LET ids == SortedSeq({t.id : t \in S})
    IN [i \in 1..Len(ids) |-> CHOOSE t \in S : t.id = ids[i]]

RECURSIVE Flatten(_)
Flatten(ss) == IF ss = <<>> THEN <<>> ELSE Head(ss) \o Flatten(Tail(ss))

\* the labels of the rows that satisfy Keep, in order of first appearance
\* (the insertion order of a dict filled in one pass over the rows)
Categories(rows, Keep(_)) ==
    LET first(i) == Keep(rows[i]) /\ \A j \in 1..(i - 1) :
                        ~(Keep(rows[j]) /\ rows[j].label = rows[i].label)
        pos == SortedSeq({i \in 1..Len(rows) : first(i)})
    IN [k \in 1..Len(pos) |-> rows[pos[k]].label]

RECURSIVE SumAbs(_, _)
SumAbs(rows, i) == IF i = 0 THEN 0 ELSE SumAbs(rows, i - 1) + Abs(rows[i].amount)

RECURSIVE SumSquares(_, _)
SumSquares(rows, i) ==
    IF i = 0 THEN 0 ELSE SumSquares(rows, i - 1) + rows[i].amount * rows[i].amount

IsExpense(t) == t.amount < 0

\* select(Tx).where(user_id, tx_date >= today - 90, tx_date <= today)
Window(T, u, tdy) ==
    {t \in T : t.user_id = u /\ t.tx_date >= tdy - WindowDays /\ t.tx_date <= tdy}

(* _detect_unusual_amounts, lines 52-86 *)

\* stdev > 0 and abs(amount - mean) > 3 * stdev, over n amounts with sum S and
\* sum of squares Q: the sample variance is (n*Q - S*S) / (n*(n-1))
IsOutlier(a, n, S, Q) ==
    /\ n * Q - S * S > 0
    /\ (n * a - S) * (n * a - S) * (n - 1) > 9 * (n * Q - S * S) * n

UnusualAmounts(rows) ==
    LET cats == Categories(rows, IsExpense)
        of(c) == SelectSeq(rows, LAMBDA t : IsExpense(t) /\ t.label = c)
        scan(c) ==
            LET mine == of(c)
                n == Len(mine)
                S == SumAbs(mine, n)
                Q == SumSquares(mine, n)
                out == SelectSeq(mine, LAMBDA t : IsOutlier(Abs(t.amount), n, S, Q))
            IN IF n < 5 THEN <<>>
               ELSE [k \in 1..Len(out) |->
                        [type |-> "unusual_amount", category |-> c,
                         transaction_id |-> out[k].id, amount |-> Abs(out[k].amount),
                         average |-> Rat(S, n), date |-> out[k].tx_date]]
    IN Flatten([k \in 1..Len(cats) |-> scan(cats[k])])

(* _detect_category_spikes, lines 88-125 *)

InRecent(t, tdy) == IsExpense(t) /\ t.tx_date >= tdy - 7

InPrevious(t, tdy) == IsExpense(t) /\ t.tx_date < tdy - 7 /\ t.tx_date >= tdy - 37

\* previous_spending[category] / 4.3
WeeklyAverage(previous) == Rat(previous * 10, 43)

\* ((recent_weekly - previous_weekly_avg) / previous_weekly_avg) * 100
IncreasePct(recent, avg) == Rat((recent * avg[2] - avg[1]) * 100, avg[1])

\* mutant: the threshold is reached, not exceeded
IsSpike_Reached(pct) == pct[1] >= 200 * pct[2]

\* increase_pct > 200
IsSpike(pct) == pct[1] > 200 * pct[2]

CategorySpikes(rows, tdy) ==
    LET cats == Categories(rows, LAMBDA t : InRecent(t, tdy))
        recent(c) == LET r == SelectSeq(rows, LAMBDA t : InRecent(t, tdy) /\ t.label = c)
                     IN SumAbs(r, Len(r))
        prevRows(c) == SelectSeq(rows, LAMBDA t : InPrevious(t, tdy) /\ t.label = c)
        scan(c) ==
            LET previous == SumAbs(prevRows(c), Len(prevRows(c)))
                avg == WeeklyAverage(previous)
            IN IF prevRows(c) # <<>> /\ avg[1] > 0 /\ IsSpike(IncreasePct(recent(c), avg))
               THEN <<[type |-> "category_spike", category |-> c,
                       recent_amount |-> recent(c), typical_amount |-> avg,
                       increase_percentage |-> IncreasePct(recent(c), avg)]>>
               ELSE <<>>
    IN Flatten([k \in 1..Len(cats) |-> scan(cats[k])])

(* _detect_duplicate_charges, lines 127-157 *)

\* mutant: only charges on consecutive days count
IsDuplicate_NextDay(tx1, tx2) ==
    LET days_apart == Abs(tx1.tx_date - tx2.tx_date)
    IN /\ tx1.amount = tx2.amount
       /\ tx1.label = tx2.label
       /\ days_apart <= 1
       /\ days_apart > 0

\* mutant: charges of the same day count too
IsDuplicate_SameDay(tx1, tx2) ==
    /\ tx1.amount = tx2.amount
    /\ tx1.label = tx2.label
    /\ Abs(tx1.tx_date - tx2.tx_date) <= 3

IsDuplicate(tx1, tx2) ==
    LET days_apart == Abs(tx1.tx_date - tx2.tx_date)
    IN /\ tx1.amount = tx2.amount
       /\ tx1.label = tx2.label
       /\ days_apart <= 3
       /\ days_apart > 0

DuplicateCharges(rows) ==
    LET n == Len(rows)
        pairs == [k \in 1..(n * n) |-> <<((k - 1) \div n) + 1, ((k - 1) % n) + 1>>]
        hits == SelectSeq(pairs, LAMBDA p :
                    /\ p[1] < p[2]
                    /\ IsExpense(rows[p[1]]) /\ IsExpense(rows[p[2]])
                    /\ IsDuplicate(rows[p[1]], rows[p[2]]))
    IN [k \in 1..Len(hits) |->
           [type |-> "duplicate_charge",
            transaction_ids |-> <<rows[hits[k][1]].id, rows[hits[k][2]].id>>,
            amount |-> Abs(rows[hits[k][1]].amount),
            category |-> rows[hits[k][1]].label,
            dates |-> <<rows[hits[k][1]].tx_date, rows[hits[k][2]].tx_date>>]]

(* _detect_subscription_creep, lines 159-208 *)

Similar(t, tx) ==
    /\ t.label = tx.label
    /\ Abs(Abs(t.amount) - Abs(tx.amount)) < 5
    /\ t.id # tx.id

SubscriptionCreep(rows) ==
    LET n == Len(rows)
        listed(t) == IsExpense(t) /\
                     Cardinality({j \in 1..n : Similar(rows[j], t)}) >= 2
        cats == Categories(rows, listed)
        scan(c) ==
            LET mine == SelectSeq(rows, LAMBDA t : listed(t) /\ t.label = c)
                m == Len(mine)
                \* amounts.sort(key=date) is stable
                firstI == CHOOSE i \in 1..m : \A j \in 1..m :
                              mine[i].tx_date < mine[j].tx_date
                              \/ (mine[i].tx_date = mine[j].tx_date /\ i <= j)
                lastI == CHOOSE i \in 1..m : \A j \in 1..m :
                              mine[j].tx_date < mine[i].tx_date
                              \/ (mine[i].tx_date = mine[j].tx_date /\ j <= i)
                first_amount == Abs(mine[firstI].amount)
                last_amount == Abs(mine[lastI].amount)
            IN IF m >= 3 /\ last_amount * 10 > first_amount * 11
               THEN <<[type |-> "subscription_creep", category |-> c,
                       initial_amount |-> first_amount, current_amount |-> last_amount,
                       increase_percentage |->
                           Rat((last_amount - first_amount) * 100, first_amount)]>>
               ELSE <<>>
    IN Flatten([k \in 1..Len(cats) |-> scan(cats[k])])

(* detect_anomalies, lines 25-50 *)

DetectAnomalies(T, u, tdy) ==
    LET transactions == TxSeq(Window(T, u, tdy))
    IN IF Len(transactions) < MinTransactions THEN NoAnomalies
       ELSE UnusualAmounts(transactions)
            \o CategorySpikes(transactions, tdy)
            \o DuplicateCharges(transactions)
            \o SubscriptionCreep(transactions)

detect_anomalies(u) ==
    /\ ops < MaxOps
    /\ ops' = ops + 1
    /\ last' = [Response("detect_anomalies", u, 200) EXCEPT
                   !.anomalies = DetectAnomalies(txs, u, today)]
    /\ UNCHANGED <<today, now, ML_AVAILABLE, installed, txs, nextId, cache, noData,
                   goals, scores, calls, insights>>

----------------------------------------------------------------------------
(* forecast.py get_goal / set_goal: table BudgetGoal *)

\* date.replace(day=1)
MonthStart(n) == n - DayOf(n) + 1

BudgetGoal(id, u, month, amount) ==
    [id |-> id, user_id |-> u, month |-> month, amount |-> amount]

\* select(BudgetGoal).where(user_id == u, month == m): the rows, and .first()
GoalsOf(G, u, m) == {g \in G : g.user_id = u /\ g.month = m}

FirstGoal(S) == CHOOSE g \in S : \A h \in S : g.id <= h.id

\* sum(abs(t.amount) for t in spent): expenses dated on or after month_start
TotalSpent(T, u, month_start) ==
    -SumAmounts({t \in T : t.user_id = u /\ t.tx_date >= month_start /\ t.amount < 0})

get_goal(u) ==
    /\ ops < MaxOps
    /\ ops' = ops + 1
    /\ LET month_start == MonthStart(today)
           found == GoalsOf(goals, u, month_start)
           amount == IF found # {} THEN FirstGoal(found).amount ELSE 0
       IN last' = [Response("get_goal", u, 200) EXCEPT
                      !.body = [month |-> month_start, amount |-> amount,
                                spent |-> TotalSpent(txs, u, month_start)]]
    /\ UNCHANGED <<today, now, ML_AVAILABLE, installed, txs, nextId, cache, noData,
                   goals, scores, calls, insights>>

\* mutant: a goal row is added on every call
SetGoalRows_Insert(G, u, month_start, amount) ==
    G \cup {BudgetGoal(Cardinality(G) + 1, u, month_start, amount)}

\* the rows of BudgetGoal after set_goal commits
SetGoalRows(G, u, month_start, amount) ==
    LET found == GoalsOf(G, u, month_start)
    IN IF found # {}
       THEN LET goal == FirstGoal(found)
            IN (G \ {goal}) \cup {[goal EXCEPT !.amount = amount]}
       ELSE G \cup {BudgetGoal(Cardinality(G) + 1, u, month_start, amount)}

set_goal(u, amount) ==
    /\ ops < MaxOps
    /\ ops' = ops + 1
    /\ LET month_start == MonthStart(today)
       IN /\ goals' = SetGoalRows(goals, u, month_start, amount)
          /\ last' = [Response("set_goal", u, 200) EXCEPT
                         !.req = [amount |-> amount],
                         !.body = [month |-> month_start, amount |-> amount]]
    /\ UNCHANGED <<today, now, ML_AVAILABLE, installed, txs, nextId, cache, noData,
                   scores, calls, insights>>

----------------------------------------------------------------------------
(* Arithmetic on fractions <<num, den>> with den > 0 *)

RECURSIVE GCD(_, _)
GCD(a, b) == IF b = 0 THEN a ELSE GCD(b, a % b)

Reduce(r) ==
    LET g == GCD(Abs(r[1]), r[2])
    IN IF g = 0 THEN r ELSE Rat(r[1] \div g, r[2] \div g)

RatAdd(a, b) == Reduce(Rat(a[1] * b[2] + b[1] * a[2], a[2] * b[2]))

RatScale(k, a) == Reduce(Rat(k * a[1], a[2]))

RatLess(a, b) == a[1] * b[2] < b[1] * a[2]

\* min(a, b) and max(a, b) of Python: the first argument unless the second is
\* strictly smaller (larger)
RatMin(a, b) == IF RatLess(b, a) THEN b ELSE a

RatMax(a, b) == IF RatLess(a, b) THEN b ELSE a

RECURSIVE RatSum(_)
RatSum(rs) == IF rs = <<>> THEN Rat(0, 1) ELSE RatAdd(Head(rs), RatSum(Tail(rs)))

----------------------------------------------------------------------------
(* insights_engine.py InsightsGenerator: the rule-based generators *)

Insight(u, type, priority, title, data) ==
    [user_id |-> u, type |-> type, priority |-> priority, title |-> title, data |-> data]

\* every anomaly becomes an insight, lines 227-238
AnomalyInsights(u, anomalies) ==
    [k \in 1..Len(anomalies) |->
        Insight(u, "anomaly",
                IF anomalies[k].type = "duplicate_charge" THEN "high" ELSE "medium",
                <<anomalies[k].type, anomalies[k].category>>, anomalies[k])]

\* _generate_savings_opportunities, lines 248-299
SavingsOpportunities(T, u, tdy) ==
    LET rows == TxSeq({t \in T : /\ t.user_id = u
                                 /\ t.tx_date >= tdy - 30 /\ t.tx_date <= tdy
                                 /\ t.amount < 0})
        cats == Categories(rows, LAMBDA t : TRUE)
        scan(c) ==
            LET mine == SelectSeq(rows, LAMBDA t : t.label = c)
                count == Len(mine)
                total_spent == SumAbs(mine, count)
            IN IF count > 10
               THEN <<Insight(u, "savings_opportunity", "medium", <<"Save on", c>>,
                              [category |-> c, total_spent |-> total_spent,
                               transaction_count |-> count,
                               potential_savings |-> Rat(total_spent * 2, 10)])>>
               ELSE <<>>
    IN Flatten([k \in 1..Len(cats) |-> scan(cats[k])])

\* _generate_achievements, lines 301-362
Achievements(T, u, tdy) ==
    LET current_month_start == MonthStart(tdy)
        last_month_end == current_month_start - 1
        last_month_start == MonthStart(last_month_end)
        current == TxSeq({t \in T : /\ t.user_id = u /\ t.amount < 0
                                    /\ t.tx_date >= current_month_start})
        previous == TxSeq({t \in T : /\ t.user_id = u /\ t.amount < 0
                                     /\ t.tx_date >= last_month_start
                                     /\ t.tx_date <= last_month_end})
        cats == Categories(previous, LAMBDA t : TRUE)
        spent(rows, c) == LET mine == SelectSeq(rows, LAMBDA t : t.label = c)
                          IN SumAbs(mine, Len(mine))
        scan(c) ==
            LET reduction == spent(previous, c) - spent(current, c)
            IN IF /\ \E i \in 1..Len(current) : current[i].label = c
                  /\ reduction > 50
                  /\ reduction * 100 > 20 * spent(previous, c)
               THEN <<Insight(u, "achievement", "low", <<"Great job reducing", c>>,
                              [category |-> c, reduction |-> reduction])>>
               ELSE <<>>
    IN Flatten([k \in 1..Len(cats) |-> scan(cats[k])])

\* int(x) of a quotient: truncation towards zero
Trunc(n, d) == IF n >= 0 THEN n \div d ELSE -((-n) \div d)

Raised == [status |-> 500, insights |-> <<>>]

Generated(list) == [status |-> 200, insights |-> list]

\* _generate_predictions, lines 364-419; dividing by a zero daily_rate raises
\* ZeroDivisionError
Predictions(T, G, u, tdy) ==
    LET current_month == MonthStart(tdy)
        found == GoalsOf(G, u, current_month)
        budget_goal == FirstGoal(found)
        days_in_month == 30
        days_passed == DayOf(tdy)
        current_spending == TotalSpent(T, u, current_month)
        \* daily_rate = current_spending / days_passed
        \* projected_total = daily_rate * days_in_month
        exceeds == current_spending * days_in_month > budget_goal.amount * days_passed
        days_until_exceed ==
            Trunc((budget_goal.amount - current_spending) * days_passed, current_spending)
    IN IF found = {} THEN Generated(<<>>)
       ELSE IF days_passed > 0 /\ exceeds
       THEN (IF current_spending = 0 THEN Raised
             ELSE Generated(<<Insight(u, "prediction",
                                     IF days_until_exceed < 7 THEN "high" ELSE "medium",
                                     <<"Budget alert">>,
                                     [current_spending |-> current_spending,
                                      budget |-> budget_goal.amount,
                                      days_until_exceed |-> days_until_exceed])>>))
       ELSE Generated(<<>>)

\* _generate_recommendations, lines 421-461
Recommendations(T, G, u, tdy) ==
    LET transactions == {t \in T : t.user_id = u /\ t.tx_date >= tdy - 30}
        total_spending == -SumAmounts({t \in transactions : t.amount < 0})
    IN IF GoalsOf(G, u, MonthStart(tdy)) = {} /\ Cardinality(transactions) > 10
       THEN <<Insight(u, "recommendation", "medium", <<"Set a monthly budget goal">>,
                      [recommended_budget |-> Rat(total_spending * 11, 10),
                       current_spending |-> total_spending])>>
       ELSE <<>>

\* generate_all_insights, lines 222-246
GenerateAllInsights(T, G, u, tdy) ==
    LET predictions == Predictions(T, G, u, tdy)
    IN IF predictions.status # 200 THEN Raised
       ELSE Generated(AnomalyInsights(u, DetectAnomalies(T, u, tdy))
                      \o SavingsOpportunities(T, u, tdy)
                      \o Achievements(T, u, tdy)
                      \o predictions.insights
                      \o Recommendations(T, G, u, tdy))

----------------------------------------------------------------------------
(* insights_engine.py InsightsGenerator: the financial health score *)

\* datetime.utcnow() as <<day, second>>, and its order
UtcNow(tdy, sec) == <<tdy, sec>>

Earlier(a, b) == a[1] < b[1] \/ (a[1] = b[1] /\ a[2] < b[2])

DaysBefore(at, k) == <<at[1] - k, at[2]>>

Neutral == Rat(50, 1)

\* func.sum(func.abs(Tx.amount)) over the user's expenses dated in lo..hi
Spending(T, u, lo, hi) ==
    -SumAmounts({t \in T : /\ t.user_id = u /\ t.amount < 0
                           /\ t.tx_date >= lo /\ t.tx_date <= hi})

\* mutant: the ratio goal/spend is not capped
Adherence_Uncapped(goal_amount, spending) ==
    IF spending > 0 THEN Rat(goal_amount * 100, spending) ELSE Rat(100, 1)

\* min(100, (goal.amount / spending * 100) if spending > 0 else 100)
Adherence(goal_amount, spending) ==
    RatMin(Rat(100, 1),
           IF spending > 0 THEN Rat(goal_amount * 100, spending) ELSE Rat(100, 1))

\* _calculate_budget_adherence, lines 512-545
BudgetAdherence(T, G, u, tdy) ==
    LET current_month == MonthStart(tdy)
        budget_goals == TxSeq({g \in G : /\ g.user_id = u
                                         /\ g.month >= current_month - 90})
        scored == SelectSeq(budget_goals, LAMBDA g : g.amount > 0)
        month_end(g) == MonthStart(g.month + 32) - 1
        adherence_scores ==
            [k \in 1..Len(scored) |->
                Adherence(scored[k].amount,
                          Spending(T, u, scored[k].month, month_end(scored[k])))]
        total == RatSum(adherence_scores)
    IN IF budget_goals = <<>> THEN Neutral
       ELSE IF adherence_scores = <<>> THEN Neutral
       ELSE Reduce(Rat(total[1], total[2] * Len(adherence_scores)))

\* the expense totals of the 8 weeks before today, the latest week first
WeeklySpending(T, u, tdy) ==
    [w \in 1..8 |-> Spending(T, u, tdy - 7 * w, tdy - 7 * w + 6)]

\* 100 * (1 - cv) in whole points, rounded down, for 0 <= cv <= 1 given as
\* cv * cv = n / d (the square root itself is not a fraction)
PointsBelow(n, d) ==
    CHOOSE s \in 0..100 :
        /\ n * 10000 <= d * (100 - s) * (100 - s)
        /\ \A r \in (s + 1)..100 : ~(n * 10000 <= d * (100 - r) * (100 - r))

\* _calculate_spending_consistency, lines 547-580: with S the sum and Q the sum
\* of squares of the 8 weekly totals, mean = S/8, stdev^2 = (8Q - S^2)/56 and
\* cv^2 = 8(8Q - S^2) / (7 S^2)
SpendingConsistency(T, u, tdy) ==
    LET weekly == WeeklySpending(T, u, tdy)
        S == SeqSum(weekly, 8)
        Q == SeqSum([w \in 1..8 |-> weekly[w] * weekly[w]], 8)
        n == 8 * (8 * Q - S * S)
        d == 7 * S * S
    IN IF S > 0
       THEN (IF n > d THEN Rat(0, 1) ELSE Rat(PointsBelow(n, d), 1))
       ELSE Neutral

\* mutant: a negative savings rate is not raised to 0
SavingsScore_Unclamped(income, expenses) ==
    RatMin(Rat(100, 1), Rat((income - expenses) * 500, income))

\* max(0, min(100, savings_rate * 500))
SavingsScore(income, expenses) ==
    RatMax(Rat(0, 1), RatMin(Rat(100, 1), Rat((income - expenses) * 500, income)))

\* _calculate_savings_rate, lines 582-609
SavingsRate(T, u, tdy) ==
    LET start_date == tdy - 30
        mine == {t \in T : t.user_id = u /\ t.tx_date >= start_date}
        income == SumAmounts({t \in mine : t.amount > 0})
        expenses == Abs(SumAmounts({t \in mine : t.amount < 0}))
    IN IF income > 0 THEN Reduce(SavingsScore(income, expenses))
       ELSE IF expenses > 0 THEN Rat(0, 1) ELSE Neutral

\* entropy / max_entropy * 100 for category totals that are not all equal lies
\* strictly between 0 and 100; the logarithms are left to numpy
EntropyBand == {Rat(1, 1), Rat(99, 1)}

\* for equal totals the quotient is 1 up to rounding; binary floating point can
\* land just above it
EntropyEqual == {Rat(100, 1), Rat(1000001, 10000)}

NormalizedEntropy(spending) ==
    IF Cardinality(spending) = 1 THEN EntropyEqual ELSE EntropyBand

\* mutant: the normalized entropy is returned as computed
BalanceScore_Uncapped(normalized) == normalized

\* min(100, normalized_entropy * 100)
BalanceScore(normalized) == RatMin(Rat(100, 1), normalized)

\* _calculate_category_balance, lines 611-651: the values it can return
CategoryBalance(T, u, tdy) ==
    LET start_date == tdy - 30
        transactions == {t \in T : /\ t.user_id = u /\ t.amount < 0
                                   /\ t.tx_date >= start_date}
        labels == {t.label : t \in transactions}
        category_spending ==
            {-SumAmounts({t \in transactions : t.label = c}) : c \in labels}
    IN IF Cardinality(transactions) < 10 THEN {Neutral}
       ELSE IF Cardinality(labels) < 2 THEN {Neutral}
       ELSE {BalanceScore(e) : e \in NormalizedEntropy(category_spending)}

\* the stored score(s) with the latest calculated_at
PreviousScores(S, u) ==
    LET mine == {i \in 1..Len(S) : S[i].user_id = u}
    IN {S[i] : i \in {j \in mine : \A k \in mine : ~Earlier(S[j].calculated_at, S[k].calculated_at)}}

\* lines 487-495
Trend(total_score, previous) ==
    IF previous = {} THEN {"stable"}
    ELSE {IF RatLess(RatAdd(p.score, Rat(2, 1)), total_score) THEN "improving"
          ELSE IF RatLess(total_score, RatAdd(p.score, Rat(-2, 1))) THEN "declining"
          ELSE "stable" : p \in previous}

\* budget * 0.3 + consistency * 0.2 + savings * 0.3 + balance * 0.2
TotalScore(budget, consistency, savings, balance) ==
    LET sum == RatSum(<<RatScale(3, budget), RatScale(2, consistency),
                        RatScale(3, savings), RatScale(2, balance)>>)
    IN Reduce(Rat(sum[1], sum[2] * 10))

\* calculate_financial_health_score, lines 463-510: the scores it can return
CalculateFinancialHealthScore(T, G, S, u, tdy, at) ==
    LET budget == BudgetAdherence(T, G, u, tdy)
        consistency == SpendingConsistency(T, u, tdy)
        savings == SavingsRate(T, u, tdy)
    IN {[user_id |-> u,
         score |-> TotalScore(budget, consistency, savings, balance),
         components |-> [budget_adherence |-> budget,
                         spending_consistency |-> consistency,
                         savings_rate |-> savings,
                         category_balance |-> balance],
         trend |-> trend,
         calculated_at |-> at] :
            <<balance, trend>> \in
                {<<b, t>> \in CategoryBalance(T, u, tdy) \X {"improving", "declining", "stable"} :
                    t \in Trend(TotalScore(budget, consistency, savings, b),
                                PreviousScores(S, u))}}

----------------------------------------------------------------------------
(* insights.py: the generation cycle and the health score route *)

\* INTEGER PRIMARY KEY: one more than the largest id of the table
NextRowId(rows) == IF rows = {} THEN 1 ELSE MaxOf({r.id : r \in rows}) + 1

\* mutant: old insights of every user are deleted
Pruned_AnyUser(I, u, at) ==
    {i \in I : ~Earlier(i.created_at, DaysBefore(at, 30))}

\* lines 73-83: the user's insights older than 30 days are deleted
Pruned(I, u, at) ==
    {i \in I : ~(i.user_id = u /\ Earlier(i.created_at, DaysBefore(at, 30)))}

\* lines 88-95: an insight of the same type and title created in the last 7 days
Existing(I, u, insight, at) ==
    \E i \in I : /\ i.user_id = u
                 /\ i.type = insight.type
                 /\ i.title = insight.title
                 /\ Earlier(DaysBefore(at, 7), i.created_at)

\* the row of a generated insight; created_at was set when the generator built
\* it (default_factory / created_at=datetime.utcnow())
InsightRow(id, u, insight, created) ==
    [id |-> id, user_id |-> u, type |-> insight.type,
     priority |-> insight.priority, title |-> insight.title,
     data |-> insight.data, created_at |-> created,
     is_read |-> FALSE, is_dismissed |-> FALSE]

\* mutant: an insight that was read or dismissed no longer suppresses
Suppressed_Unread(I, u, insight, at) ==
    \E i \in I : /\ i.user_id = u
                 /\ i.type = insight.type
                 /\ i.title = insight.title
                 /\ Earlier(DaysBefore(at, 7), i.created_at)
                 /\ ~i.is_read /\ ~i.is_dismissed

\* line 97: if not existing
Suppressed(I, u, insight, at) == Existing(I, u, insight, at)

\* lines 86-98: the generated insights are added one by one; the session
\* flushes the ones added so far before each select
RECURSIVE Persisted(_, _, _, _, _)
Persisted(I, u, generated, created, at) ==
    IF generated = <<>> THEN I
    ELSE LET insight == Head(generated)
             row == InsightRow(NextRowId(I), u, insight, created)
         IN Persisted(IF Suppressed(I, u, insight, at) THEN I ELSE I \cup {row},
                      u, Tail(generated), created, at)

\* seconds that pass between the generator's utcnow() and the task's
Lags == {0, 1}

generate_user_insights_task(u) ==
    /\ ops < MaxOps
    /\ ops' = ops + 1
    /\ LET created == UtcNow(today, now)
           generated == GenerateAllInsights(txs, goals, u, today)
       IN IF generated.status # 200
          THEN /\ last' = Response("generate_all_insights", u, 500)
               /\ UNCHANGED <<insights, scores, now>>
          ELSE \E lag \in Lags :
               LET at == UtcNow(today, now + lag)
               IN \E health_score \in
                     CalculateFinancialHealthScore(txs, goals, scores, u, today, at) :
                  /\ now' = now + lag
                  /\ insights' = Persisted(Pruned(insights, u, at), u,
                                           generated.insights, created, at)
                  /\ scores' = Append(scores, health_score)
                  /\ last' = [Response("generate_all_insights", u, 200) EXCEPT
                                 !.body = [insights |-> generated.insights,
                                           health_score |-> health_score],
                                 !.before = insights,
                                 !.req = [created |-> created, at |-> at]]
    /\ UNCHANGED <<today, ML_AVAILABLE, installed, txs, nextId, cache, noData,
                   goals, calls>>

\* insights.py get_health_score, lines 198-214: the latest stored score, or a
\* new one that is stored
get_health_score(u) ==
    /\ ops < MaxOps
    /\ ops' = ops + 1
    /\ LET stored == PreviousScores(scores, u)
           fresh == CalculateFinancialHealthScore(txs, goals, scores, u, today,
                                                  UtcNow(today, now))
       IN \E health_score \in (IF stored # {} THEN stored ELSE fresh) :
             /\ scores' = IF stored # {} THEN scores ELSE Append(scores, health_score)
             /\ last' = [Response("get_health_score", u, 200) EXCEPT
                            !.body = [insights |-> <<>>, health_score |-> health_score]]
    /\ UNCHANGED <<today, now, ML_AVAILABLE, installed, txs, nextId, cache, noData,
                   goals, calls, insights>>

\* insights.py mark_insight_read (lines 150-171) and dismiss_insight (174-195):
\* the flag of the user's own insight is set, 404 otherwise
OwnInsights(I, insight_id, u) == {i \in I : i.id = insight_id /\ i.user_id = u}

mark_insight_read(insight_id, u) ==
    /\ ops < MaxOps
    /\ ops' = ops + 1
    /\ LET found == OwnInsights(insights, insight_id, u)
       IN IF found = {}
          THEN /\ last' = Response("mark_insight_read", u, 404)
               /\ UNCHANGED insights
          ELSE /\ insights' = (insights \ found) \cup {[i EXCEPT !.is_read = TRUE] : i \in found}
               /\ last' = Response("mark_insight_read", u, 200)
    /\ UNCHANGED <<today, now, ML_AVAILABLE, installed, txs, nextId, cache, noData,
                   goals, scores, calls>>

dismiss_insight(insight_id, u) ==
    /\ ops < MaxOps
    /\ ops' = ops + 1
    /\ LET found == OwnInsights(insights, insight_id, u)
       IN IF found = {}
          THEN /\ last' = Response("dismiss_insight", u, 404)
               /\ UNCHANGED insights
          ELSE /\ insights' = (insights \ found) \cup
                                  {[i EXCEPT !.is_dismissed = TRUE] : i \in found}
               /\ last' = Response("dismiss_insight", u, 200)
    /\ UNCHANGED <<today, now, ML_AVAILABLE, installed, txs, nextId, cache, noData,
                   goals, scores, calls>>

----------------------------------------------------------------------------
(* insights.py generate_user_insights_task on two threads (the scheduler's
   loop and the background tasks of POST /insights/generate): a session reads
   the committed rows and its own pending ones, and writes at commit *)

\* the rows the session holds for insertion after the loop of lines 86-98, in
\* the order they were added
PendingRows(I, u, generated, created, at) ==
    LET base == Pruned(I, u, at)
        view == Persisted(base, u, generated, created, at)
        ids == SortedSeq({r.id : r \in view \ base})
    IN [k \in 1..Len(ids) |-> CHOOSE r \in view : r.id = ids[k]]

\* the INSERTs of the commit: each row takes the next id of the table
RECURSIVE Flushed(_, _)
Flushed(I, rows) ==
    IF rows = <<>> THEN I
    ELSE Flushed(I \cup {[Head(rows) EXCEPT !.id = NextRowId(I)]}, Tail(rows))

\* lines 69-98 on thread w: generate, select the old rows, check each insight
task_check(w, u) ==
    /\ ops < MaxOps
    /\ ops' = ops + 1
    /\ Free(w)
    /\ LET created == UtcNow(today, now)
           generated == GenerateAllInsights(txs, goals, u, today)
       IN IF generated.status # 200
          THEN /\ last' = Response("generate_all_insights", u, 500)
               /\ UNCHANGED <<calls, now>>
          ELSE \E lag \in Lags :
               LET at == UtcNow(today, now + lag)
               IN /\ now' = now + lag
                  /\ calls' = [calls EXCEPT ![w] =
                                  [state |-> "checked", user |-> u, at |-> at,
                                   old |-> insights \ Pruned(insights, u, at),
                                   rows |-> PendingRows(insights, u, generated.insights,
                                                        created, at),
                                   generated |-> generated.insights]]
                  /\ last' = last
    /\ UNCHANGED <<today, ML_AVAILABLE, installed, txs, nextId, cache, noData,
                   goals, scores, insights>>

\* lines 100-104 on thread w: the health score, then the commit
task_commit(w) ==
    /\ calls[w].state = "checked"
    /\ LET c == calls[w]
       IN \E health_score \in
             CalculateFinancialHealthScore(txs, goals, scores, c.user, today, c.at) :
          /\ insights' = Flushed(insights \ c.old, c.rows)
          /\ scores' = Append(scores, health_score)
          /\ last' = [Response("generate_all_insights", c.user, 200) EXCEPT
                         !.body = [insights |-> c.generated,
                                   health_score |-> health_score],
                         !.before = insights]
    /\ calls' = [calls EXCEPT ![w] = [state |-> "done"]]
    /\ UNCHANGED <<today, now, ML_AVAILABLE, installed, txs, nextId, cache, noData,
                   ops, goals>>

----------------------------------------------------------------------------
(* Time passes: a second within the same day, or over midnight *)

Tick ==
    /\ ops < MaxOps
    /\ ops' = ops + 1
    /\ now' = now + 1
    /\ today' \in {today, today + 1}
    /\ UNCHANGED <<ML_AVAILABLE, installed, txs, nextId, cache, last, noData,
                   goals, scores, calls, insights>>

----------------------------------------------------------------------------
(* Specification of the forecast endpoint over a growing transaction store *)

Amounts == {10}
DateOffsets == {-1, 0, 3}
HistoryLengths == {0, 1, 7}

\* user 1 logged one transaction a day for k days, the last one two days ago
History(k) ==
    {Tx(i, 1, Day0 - 2 - (k - i), IF i % 3 = 0 THEN -5 ELSE 10, "Food", FALSE, NoSeries) :
        i \in 1..k}

InitCommon ==
    /\ today = Day0
    /\ now = 0
    /\ ML_AVAILABLE \in BOOLEAN
    /\ installed \in {{}, Libraries}
    /\ cache = <<>>
    /\ last = Response("init", 0, 0)
    /\ noData = {}
    /\ ops = 0
    /\ goals = {}
    /\ scores = <<>>
    /\ calls = NoCalls
    /\ insights = {}

Init ==
    /\ InitCommon
    /\ \E k \in HistoryLengths :
          /\ txs = History(k)
          /\ nextId = k + 1

AddTx ==
    \E u \in Users, o \in DateOffsets, a \in Amounts, r \in BOOLEAN :
        add_tx(u, today - o, a, "Food", r)

\* requests: every model with a horizon in range, and horizons out of range
Requests == ({3} \X Models) \cup ({0, 31} \X {"linear"})

GetForecast ==
    \E u \in Users, req \in Requests :
        get_forecast(u, req[1], req[2])

Next == AddTx \/ GetForecast \/ Tick

Spec == Init /\ [][Next]_vars

----------------------------------------------------------------------------
(* Specification of the anomaly detector over a user's recent expenses *)

ExpenseAmounts == {-20, -30, -43}
ExpenseOffsets == {0, 2, 10}
ExpenseLabels == {"Food", "Fun"}
SalaryCounts == {0, 7, 8}

\* user 1 was paid n times, every fifth day, the last time 45 days ago
Salaries(n) ==
    {Tx(i, 1, Day0 - 40 - 5 * i, 100, "Salary", FALSE, NoSeries) : i \in 1..n}

InitAnomaly ==
    /\ today = Day0
    /\ now = 0
    /\ ML_AVAILABLE = TRUE
    /\ installed = Libraries
    /\ cache = <<>>
    /\ last = Response("init", 0, 0)
    /\ noData = {}
    /\ ops = 0
    /\ goals = {}
    /\ scores = <<>>
    /\ calls = NoCalls
    /\ insights = {}
    /\ \E n \in SalaryCounts :
          /\ txs = Salaries(n)
          /\ nextId = n + 1

AddExpense ==
    \E u \in Users, o \in ExpenseOffsets, a \in ExpenseAmounts, l \in ExpenseLabels :
        add_tx(u, today - o, a, l, FALSE)

Detect == \E u \in Users : detect_anomalies(u)

NextAnomaly == AddExpense \/ Detect

SpecAnomaly == InitAnomaly /\ [][NextAnomaly]_vars

----------------------------------------------------------------------------
(* Specification of the insight generators and the health score *)

LedgerLengths == {0, 10, 11}
EntryAmounts == {-4, 8}
EntryOffsets == {0, 20}
GoalAmounts == {-5, 3, 40}

\* user 1 spent 1 every third day, k times, on Food and Fun in turn
Ledger(k) ==
    {Tx(i, 1, Day0 - 3 * i, -1, IF i % 2 = 0 THEN "Food" ELSE "Fun", FALSE, NoSeries) :
        i \in 1..k}

InitHealth ==
    /\ InitCommon
    /\ \E k \in LedgerLengths :
          /\ txs = Ledger(k)
          /\ nextId = k + 1

AddEntry ==
    \E u \in Users, o \in EntryOffsets, a \in EntryAmounts :
        add_tx(u, today - o, a, "Food", FALSE)

SetGoal == \E u \in Users, a \in GoalAmounts : set_goal(u, a)

GetGoal == \E u \in Users : get_goal(u)

GenerateInsights == \E u \in Users : generate_user_insights_task(u)

GetHealthScore == \E u \in Users : get_health_score(u)

NextHealth == AddEntry \/ SetGoal \/ GetGoal \/ GenerateInsights \/ GetHealthScore \/ Tick

SpecHealth == InitHealth /\ [][NextHealth]_vars

----------------------------------------------------------------------------
(* Specification of the transaction store with recurring series *)

Accounts == {1, 2}
TxIds == 1..4
WaitDays == {0, 65}
ReminderDays == 30

\* (days before today, amount, recurring) of the add requests
AddRequests == {<<0, 10, FALSE>>, <<0, 10, TRUE>>, <<200, 10, TRUE>>, <<0, 0, FALSE>>}

\* (days after the row's date, amount, recurring, propagate) of the update requests
UpdateRequests ==
    {<<0, 10, TRUE, FALSE>>, <<0, 10, FALSE, FALSE>>, <<1, 12, TRUE, TRUE>>, <<0, 0, TRUE, FALSE>>}

\* user 2 keeps one occurrence of a series created in second 0
Foreign == {Tx(1, 2, Day0 + 31, -7, "Rent", TRUE, <<0>>)}

\* user 1 logged one transaction two days ago
Single == {Tx(2, 1, Day0 - 2, 10, "Food", FALSE, NoSeries)}

InitSeries ==
    /\ today = Day0
    /\ now = 0
    /\ ML_AVAILABLE = TRUE
    /\ installed = Libraries
    /\ cache = <<>>
    /\ last = Response("init", 0, 0)
    /\ noData = {}
    /\ ops = 0
    /\ goals = {}
    /\ scores = <<>>
    /\ calls = NoCalls
    /\ insights = {}
    /\ txs \in {Foreign, Foreign \cup Single}
    /\ nextId = Cardinality(txs) + 1

\* the clock moves on: a second later, or 65 days later
Sleep(k) ==
    /\ ops < MaxOps
    /\ ops' = ops + 1
    /\ now' = now + 1
    /\ today' = today + k
    /\ UNCHANGED <<ML_AVAILABLE, installed, txs, nextId, cache, last, noData,
                   goals, scores, calls, insights>>

Wait == \E k \in WaitDays : Sleep(k)

AddSeries == \E req \in AddRequests : add_tx(1, today - req[1], req[2], "Food", req[3])

\* requests for a row of the store keep or move its date; others carry today's
UpdateTx ==
    \E tx_id \in TxIds, req \in UpdateRequests :
        LET found == Lookup(txs, tx_id)
            d == IF found = {} THEN today ELSE (CHOOSE t \in found : TRUE).tx_date + req[1]
        IN update_tx(tx_id, d, req[2], "Food", req[3], req[4], 1)

DeleteTx == \E tx_id \in TxIds : delete_tx(tx_id, 1)

ListTx == list_tx(1)

GetReminders == get_reminders(1, ReminderDays)

NextSeries == AddSeries \/ UpdateTx \/ DeleteTx \/ ListTx \/ GetReminders \/ Wait

SpecSeries == InitSeries /\ [][NextSeries]_vars

----------------------------------------------------------------------------
(* Specification of forecast requests served by two worker threads *)

RaceModels == {"linear", "mc", "catboost"}
RaceDays == {3}

InitRace ==
    /\ InitCommon
    /\ \E k \in {1, 7} :
          /\ txs = History(k)
          /\ nextId = k + 1

BeginForecast ==
    \E w \in Threads, u \in Users, d \in RaceDays, m \in RaceModels :
        forecast_lookup(w, u, d, m)

Compute == \E w \in Threads : forecast_compute(w)

Return == \E w \in Threads : forecast_return(w)

\* a transaction dated today is posted while forecasts are served
AddToday == \E u \in Users : add_tx(u, today, 10, "Food", FALSE)

NextRace == BeginForecast \/ Compute \/ Return \/ AddToday

SpecRace == InitRace /\ [][NextRace]_vars

----------------------------------------------------------------------------
(* Specification of the charge scans (duplicates, subscriptions) over a ledger
   that already holds enough transactions *)

\* expenses the user logged before: none, two equal Food charges two days
\* apart, or three Music charges of 10, 10 and 16
NoSeed == {}
FoodSeed ==
    {Tx(9, 1, Day0 - 4, -20, "Food", FALSE, NoSeries),
     Tx(10, 1, Day0 - 2, -20, "Food", FALSE, NoSeries)}
MusicSeed ==
    {Tx(9, 1, Day0 - 60, -10, "Music", FALSE, NoSeries),
     Tx(10, 1, Day0 - 30, -10, "Music", FALSE, NoSeries),
     Tx(11, 1, Day0 - 1, -16, "Music", FALSE, NoSeries)}
Seeds == {NoSeed, FoodSeed, MusicSeed}

\* (days before today, amount, category) of the add requests
ChargeRequests ==
    {<<0, -20, "Food">>, <<2, -20, "Food">>, <<10, -20, "Food">>, <<0, 20, "Food">>,
     <<0, -30, "Food">>, <<0, -20, "Fun">>,
     <<0, -12, "Music">>, <<0, -20, "Music">>, <<0, 13, "Music">>}

InitCharges ==
    /\ InitCommon
    /\ ML_AVAILABLE = TRUE
    /\ installed = Libraries
    /\ \E seed \in Seeds :
          /\ txs = Salaries(8) \cup seed
          /\ nextId = 9 + Cardinality(seed)

AddCharge ==
    \E u \in Users, c \in ChargeRequests : add_tx(u, today - c[1], c[2], c[3], FALSE)

NextCharges == AddCharge \/ Detect

SpecCharges == InitCharges /\ [][NextCharges]_vars

----------------------------------------------------------------------------
(* Specification of the generation cycles over the Insight table *)

RecentCounts == {9, 10, 11}
CycleWaits == {0, 7, 30}
InsightIds == {1, 2, 6}

\* user 1 spent on Food every second day, k times; the three latest charges
\* are equal
Recent(k) ==
    {Tx(i, 1, Day0 - 2 * i, IF i <= 3 THEN -10 ELSE -(10 + i), "Food", FALSE, NoSeries) :
        i \in 1..k}

Advice == Insight(1, "recommendation", "medium", <<"Set a monthly budget goal">>, <<>>)

Stored(id, u, insight, day, sec, read, dismissed) ==
    [InsightRow(id, u, insight, <<day, sec>>) EXCEPT
        !.is_read = read, !.is_dismissed = dismissed]

\* what earlier cycles left in the table: nothing; the advice given a week ago
\* less a second and since dismissed; the advice given 3 days ago and read;
\* rows of 31 and 30 days ago, and an old row of another user
StoredBefore ==
    {{},
     {Stored(1, 1, Advice, Day0 - 7, 1, FALSE, TRUE)},
     {Stored(1, 1, Advice, Day0 - 3, 0, TRUE, FALSE)},
     {Stored(1, 1, Advice, Day0 - 31, 0, FALSE, FALSE),
      Stored(2, 1, Advice, Day0 - 20, 0, TRUE, FALSE),
      Stored(3, 2, Advice, Day0 - 40, 0, FALSE, FALSE)}}

InitCycle ==
    /\ today = Day0
    /\ now = 0
    /\ ML_AVAILABLE = TRUE
    /\ installed = Libraries
    /\ cache = <<>>
    /\ last = Response("init", 0, 0)
    /\ noData = {}
    /\ ops = 0
    /\ goals = {}
    /\ scores = <<>>
    /\ calls = NoCalls
    /\ \E k \in RecentCounts :
          /\ txs = Recent(k)
          /\ nextId = k + 1
    /\ insights \in StoredBefore

Cycle == \E u \in Users : generate_user_insights_task(u)

MarkRead == \E id \in InsightIds, u \in Users : mark_insight_read(id, u)

Dismiss == \E id \in InsightIds, u \in Users : dismiss_insight(id, u)

CycleWait == \E k \in CycleWaits : Sleep(k)

\* a subscription is logged today: the row and its three occurrences ahead
AddSubscription == \E u \in Users : add_tx(u, today, -10, "Music", TRUE)

NextCycle == Cycle \/ MarkRead \/ Dismiss \/ CycleWait \/ SetGoal \/ AddSubscription

SpecCycle == InitCycle /\ [][NextCycle]_vars

----------------------------------------------------------------------------
(* Specification of generation cycles that run on two threads at once *)

StartCycle == \E w \in Threads, u \in Users : task_check(w, u)

CommitCycle == \E w \in Threads : task_commit(w)

NextCycleRace == StartCycle \/ CommitCycle

SpecCycleRace == InitCycle /\ [][NextCycleRace]_vars

----------------------------------------------------------------------------
(* Properties of the forecast endpoint *)

Caller == UserTxs(txs, last.user)

Forecasted == last.op = "forecast"

DistinctDates(T) == Cardinality({t.tx_date : t \in T})

\* the step is a forecast request (a clock tick leaves "last" alone)
ForecastStep == ops' = ops + 1 /\ now' = now /\ last'.op = "forecast"

\* C1: adding a transaction changes the cache key of its user, so no entry stored
\* before the addition can answer the next forecast.
C1_AddChangesKey ==
    (last.op = "add_tx" /\ last.status = 200) =>
        \A i \in 1..Len(cache) :
            ~(cache[i].key[1] = last.user /\ cache[i].key[4] = LastTs(Caller))

\* C2: for a horizon in 1..30 the returned dates are the consecutive days that
\* start the day after the user's last transaction date.
C2_DatesFollowLastDate ==
    (Forecasted /\ last.status = 200 /\ last.days \in HorizonRange) =>
        \A i \in 1..Len(last.points) : last.points[i].tx_date = LastTs(Caller) + i

\* C3 as stated: with at least one transaction and a horizon N in 1..30, forecast
\* returns exactly N points for every model name.
C3_AlwaysNPoints ==
    (Forecasted /\ Caller # {} /\ last.days \in HorizonRange) =>
        (last.status = 200 /\ Len(last.points) = last.days)

\* the optional library of the requested model is missing and the fitted branch is taken
LibraryMissing(T, model) ==
    /\ ML_AVAILABLE
    /\ model \in Libraries
    /\ model \notin installed
    /\ DistinctDates(T) >= 7

\* C3 as amended: with at least one transaction and a horizon N in 1..30, a forecast
\* that returns a result returns exactly N points, for every model name; the only
\* requests that return no result are those for catboost or neuralprophet whose
\* library is not installed once the series has 7 distinct dates.
C3_NPointsWhenReturned ==
    (Forecasted /\ Caller # {} /\ last.days \in HorizonRange) =>
        /\ last.status = 200 => Len(last.points) = last.days
        /\ last.status # 200 => (last.status = 500 /\ LibraryMissing(Caller, last.model))

C3_Witness ==
    /\ Forecasted /\ last.status = 200 /\ last.computed
    /\ last.model = "catboost" /\ last.days = 3 /\ Len(last.points) = 3
    /\ DistinctDates(Caller) >= 7 /\ ML_AVAILABLE

\* C4: a request for catboost or neuralprophet whose dependency is unavailable is
\* answered 503, whatever the (non-empty) history.
C4_Unavailable503 ==
    (/\ Forecasted /\ Caller # {}
     /\ last.model \in Libraries
     /\ (~ML_AVAILABLE \/ last.model \notin installed)) =>
        last.status = 503

\* C5: a forecast for a user without transactions is answered 404 and leaves the
\* cache as it was; once a transaction has been added (the series still shorter
\* than 7 dates) the same request is answered with a result of the asked length.
C5_NoNegativeCaching ==
    [][ForecastStep =>
          LET T == UserTxs(txs, last'.user)
              req == <<last'.user, last'.days, last'.model>>
          IN /\ T = {} => (last'.status = 404 /\ cache' = cache)
             /\ (T # {} /\ req \in noData /\ DistinctDates(T) < 7) =>
                    (last'.status = 200 /\ Len(last'.points) = last'.days)
             /\ T # {} => last'.status # 404]_vars

C5_Witness ==
    /\ Forecasted /\ last.status = 200 /\ last.computed
    /\ <<last.user, last.days, last.model>> \in noData
    /\ last.days = 3 /\ Len(last.points) = 3

\* C6: a forecast that repeats the previous forecast's (user, horizon, model), with
\* no request in between, returns the same points without calling _forecast_cached.
C6_CacheHit ==
    [][(/\ ForecastStep
        /\ last.op = "forecast" /\ last.status = 200
        /\ last'.user = last.user /\ last'.days = last.days /\ last'.model = last.model) =>
          (last'.status = 200 /\ last'.points = last.points /\ ~last'.computed)]_vars

C6_Witness ==
    /\ Forecasted /\ last.status = 200 /\ ~last.computed
    /\ last.model = "mc" /\ Len(last.points) = 3
    /\ DistinctDates(Caller) >= 7 /\ ML_AVAILABLE

\* C7: a request with a horizon outside 1..30 is rejected, computes nothing and
\* caches nothing.
C7_HorizonBounded ==
    /\ (Forecasted /\ last.days \notin HorizonRange) =>
           (last.status # 200 /\ ~last.computed)
    /\ \A i \in 1..Len(cache) : cache[i].key[2] \in HorizonRange

\* C8: computed over a series with fewer than 2 distinct dates, every point of the
\* projection equals the sum of the user's amounts, whatever the model.
C8_FlatProjection ==
    (Forecasted /\ last.computed /\ last.status = 200 /\ DistinctDates(Caller) < 2) =>
        /\ Len(last.points) = last.days
        /\ \A i \in 1..Len(last.points) :
              last.points[i].predicted_balance[1] =
                  SumAmounts(Caller) * last.points[i].predicted_balance[2]

C8_Witness ==
    /\ Forecasted /\ last.computed /\ last.status = 200
    /\ DistinctDates(Caller) = 1 /\ Cardinality(Caller) = 2
    /\ last.model = "rf" /\ Len(last.points) = 3
    /\ \A i \in 1..3 : last.points[i].predicted_balance = Rat(20, 1)

----------------------------------------------------------------------------
(* Properties of the anomaly detector *)

Detected == last.op = "detect_anomalies"

Scanned == Window(txs, last.user, today)

\* the anomalies of one type in the last response
Reported(type) ==
    {last.anomalies[i] : i \in {j \in 1..Len(last.anomalies) : last.anomalies[j].type = type}}

\* two expenses of the same amount and category dated 2 days apart
TwoDaysApart(t1, t2) ==
    /\ t1.id # t2.id
    /\ t1.amount < 0 /\ t1.amount = t2.amount /\ t1.label = t2.label
    /\ Abs(t1.tx_date - t2.tx_date) = 2

Names(a, t1, t2) ==
    {t1.id, t2.id} \subseteq {a.transaction_ids[i] : i \in 1..Len(a.transaction_ids)}

\* C9 as stated: when the user's only transactions are two expenses of the same
\* amount and category dated 2 days apart, a duplicate_charge anomaly names both.
C9_TwoOnlyDuplicate ==
    Detected =>
        \A t1, t2 \in Caller :
            (Caller = {t1, t2} /\ TwoDaysApart(t1, t2)) =>
                \E a \in Reported("duplicate_charge") : Names(a, t1, t2)

\* C9 as amended: two such expenses among at least 10 transactions of the trailing
\* 90-day window are named together by a duplicate_charge anomaly; with fewer than
\* 10 transactions in the window (so also when the two are the user's only
\* transactions) the result is empty.
C9_DuplicateAmongTen ==
    Detected =>
        /\ Cardinality(Scanned) < MinTransactions => last.anomalies = NoAnomalies
        /\ Cardinality(Scanned) >= MinTransactions =>
              \A t1, t2 \in Scanned :
                  TwoDaysApart(t1, t2) =>
                      \E a \in Reported("duplicate_charge") : Names(a, t1, t2)

C9_Witness ==
    /\ Detected
    /\ Cardinality(Scanned) >= MinTransactions
    /\ \E t1, t2 \in Scanned :
          /\ TwoDaysApart(t1, t2)
          /\ \E a \in Reported("duplicate_charge") : Names(a, t1, t2)

\* expense totals of a category in the last 7 days and in the 30 days before them
RecentTotal(c) ==
    -SumAmounts({t \in Scanned : t.label = c /\ t.amount < 0 /\ t.tx_date >= today - 7})

PriorRows(c) ==
    {t \in Scanned : t.label = c /\ t.amount < 0
                     /\ t.tx_date < today - 7 /\ t.tx_date >= today - 37}

PriorTotal(c) == -SumAmounts(PriorRows(c))

InBothWindows(c) == RecentTotal(c) > 0 /\ PriorRows(c) # {}

Spiked(c) == \E a \in Reported("category_spike") : a.category = c

SeenLabels == {t.label : t \in Scanned}

\* C10 as stated: once the scan runs, a category present in both windows is flagged
\* exactly when its recent total exceeds 2 times the prior weekly average
\* (prior total / 4.3), and it is flagged at exactly 3 times that average.
C10_Over200PercentOfAverage ==
    (Detected /\ Cardinality(Scanned) >= MinTransactions) =>
        \A c \in SeenLabels :
            InBothWindows(c) =>
                /\ Spiked(c) <=> (43 * RecentTotal(c) > 2 * 10 * PriorTotal(c))
                /\ (43 * RecentTotal(c) = 3 * 10 * PriorTotal(c)) => Spiked(c)

\* C10 as amended: once the scan runs, a category is flagged exactly when it is
\* present in both windows and its recent total exceeds 3 times the prior weekly
\* average (an increase of more than 200%); at exactly 3 times, as at exactly 2
\* times, it is not flagged.
C10_Over200PercentIncrease ==
    (Detected /\ Cardinality(Scanned) >= MinTransactions) =>
        \A c \in SeenLabels :
            Spiked(c) <=> (InBothWindows(c) /\ 43 * RecentTotal(c) > 3 * 10 * PriorTotal(c))

C10_Witness ==
    /\ Detected
    /\ Cardinality(Scanned) >= MinTransactions
    /\ InBothWindows("Food")
    /\ 43 * RecentTotal("Food") = 3 * 10 * PriorTotal("Food")
    /\ ~Spiked("Food")

----------------------------------------------------------------------------
(* Properties of the health score *)

\* the last response carries a health score
Scored == last.op \in {"generate_all_insights", "get_health_score"} /\ last.status = 200

InRange(x) == ~RatLess(x, Rat(0, 1)) /\ ~RatLess(Rat(100, 1), x)

ScoreInRange(h) ==
    /\ InRange(h.components.budget_adherence)
    /\ InRange(h.components.spending_consistency)
    /\ InRange(h.components.savings_rate)
    /\ InRange(h.components.category_balance)
    /\ InRange(h.score)

\* C11: the four sub-scores and the composite score of every health score that is
\* returned or stored lie in [0, 100].
C11_ScoresInRange ==
    /\ Scored => ScoreInRange(last.body.health_score)
    /\ \A i \in 1..Len(scores) : ScoreInRange(scores[i])

\* a score computed for a user who earned less than was spent in the last 30
\* days, with a goal that the spending stayed below and uneven weekly spending
C11_Witness ==
    /\ Scored
    /\ LET h == last.body.health_score
           mine == {t \in UserTxs(txs, last.user) : t.tx_date >= today - 30}
       IN /\ h.calculated_at = UtcNow(today, now)
          /\ SumAmounts({t \in mine : t.amount > 0}) > 0
          /\ SumAmounts(mine) < 0
          /\ h.components.savings_rate = Rat(0, 1)
          /\ h.components.budget_adherence = Rat(100, 1)
          /\ h.components.category_balance # Neutral
          /\ RatLess(Rat(0, 1), h.components.spending_consistency)
          /\ RatLess(h.components.spending_consistency, Neutral)

AllNeutral(h) ==
    /\ h.components.budget_adherence = Neutral
    /\ h.components.spending_consistency = Neutral
    /\ h.components.savings_rate = Neutral
    /\ h.components.category_balance = Neutral

\* C12: for a user without transactions the generation of insights returns an
\* empty list, and the health score is computed with its four components at 50
\* and, when no score was stored before, with trend "stable".
C12_NeutralWithoutTransactions ==
    (last.op \in {"generate_all_insights", "get_health_score"} /\ Caller = {}) =>
        /\ last.status = 200
        /\ last.body.insights = <<>>
        /\ AllNeutral(last.body.health_score)
        /\ (\A i \in 1..Len(scores) :
                scores[i].user_id = last.user => scores[i] = last.body.health_score)
               => last.body.health_score.trend = "stable"

----------------------------------------------------------------------------
(* Properties of the transaction store *)

\* the step is a request handled by the named operation (the clock stands still)
Handled(op) == ops' = ops + 1 /\ now' = now /\ last'.op = op

\* the step makes a transaction recurring: a recurring add, or an update that
\* switches a non-recurring row to recurring
MadeRecurring ==
    /\ (Handled("add_tx") \/ Handled("update_tx"))
    /\ last'.status = 200
    /\ last'.req.recurring
    /\ \A t \in Lookup(txs, last'.req.tx_id) : ~t.recurring

Occurrence(t) == <<t.tx_date, t.amount, t.label, t.recurring>>

\* C13: making a transaction recurring adds exactly 3 rows, dated 1, 2 and 3
\* months after the original with its amount, label, user and series id, so that
\* the user's series consists of the original and these 3 occurrences.
C13_ThreeOccurrences ==
    [][MadeRecurring =>
          LET original == CHOOSE t \in txs' : t.id = last'.req.tx_id
              series == SeriesRows(txs', last'.user, original.series_id)
          IN /\ HasSeries(original)
             /\ Cardinality(txs' \ txs) = 3 + Cardinality({original} \ txs)
             /\ Cardinality(series) = 4
             /\ {Occurrence(t) : t \in series \ {original}} =
                   {<<AddMonths(original.tx_date, i), original.amount,
                      original.label, TRUE>> : i \in 1..3}]_vars

FutureCount(T, u, sid) == Cardinality({t \in SeriesRows(T, u, sid) : t.tx_date > today})

\* C14: after list_tx or get_reminders every recurring series of the user has at
\* least 3 occurrences after today, every appended row is dated one month after
\* an occurrence of its series that was the latest one, and a second call on the
\* same day adds nothing.
C14_ThreeAhead ==
    [][(Handled("list_tx") \/ Handled("get_reminders")) =>
          LET u == last'.user
          IN /\ \A sid \in SeriesIds(txs', u) : FutureCount(txs', u, sid) >= 3
             /\ \A t \in txs' \ txs :
                   \E p \in SeriesRows(txs', u, t.series_id) :
                       /\ t.tx_date = AddMonths(p.tx_date, 1)
                       /\ \A x \in SeriesRows(txs', u, t.series_id) :
                             x.tx_date <= p.tx_date \/ x.tx_date >= t.tx_date
             /\ (last.op \in {"list_tx", "get_reminders"} /\ last.user = u) => txs' = txs]_vars

\* C15: delete_tx answers 404 and changes nothing when the user has no row of
\* that id; otherwise it deletes exactly the row when the row has no series, and
\* exactly the user's rows of its series dated on or after it when it has one, so
\* that deleting an earliest occurrence leaves nothing of the series.
C15_DeleteFrame ==
    [][Handled("delete_tx") =>
          LET u == last'.user
              found == {t \in txs : t.id = last'.req.tx_id /\ t.user_id = u}
          IN IF found = {}
             THEN last'.status = 404 /\ txs' = txs
             ELSE LET tx == CHOOSE t \in found : TRUE
                      goes(t) == IF tx.series_id = NoSeries THEN t = tx
                                 ELSE /\ t.user_id = u
                                      /\ t.series_id = tx.series_id
                                      /\ t.tx_date >= tx.tx_date
                  IN /\ last'.status = 204
                     /\ txs' = {t \in txs : ~goes(t)}
                     /\ (/\ tx.series_id # NoSeries
                         /\ \A t \in SeriesRows(txs, u, tx.series_id) :
                               t.tx_date >= tx.tx_date)
                            => SeriesRows(txs', u, tx.series_id) = {}]_vars

\* a later occurrence of a series of user 1 was deleted with the ones after it;
\* the original stays, and so does the row of user 2 with the same series id
C15_Witness ==
    /\ last.op = "delete_tx" /\ last.status = 204 /\ last.user = 1
    /\ Cardinality(last.before \ txs) = 3
    /\ \E t \in txs, f \in txs :
          /\ t.user_id = 1 /\ f.user_id = 2
          /\ t.series_id = f.series_id /\ HasSeries(t)
          /\ \A x \in last.before \ txs :
                x.user_id = 1 /\ x.series_id = t.series_id /\ x.tx_date > t.tx_date

\* the request of the last response repeats the row's date, amount and label
SamePayload(req, t) ==
    req.tx_date = t.tx_date /\ req.amount = t.amount /\ req.label = t.label

\* the last request switched the user's only transaction, a non-recurring one,
\* to recurring without changing date, amount or label
ToggledOn ==
    /\ last.op = "update_tx" /\ last.status = 200 /\ last.req.recurring
    /\ \E t \in last.before :
          /\ UserTxs(last.before, last.user) = {t}
          /\ t.id = last.req.tx_id
          /\ ~t.recurring /\ ~HasSeries(t)
          /\ SamePayload(last.req, t)

\* the last request switched a recurring transaction back, same payload again,
\* and left it the user's only transaction
ToggledOff ==
    /\ last.op = "update_tx" /\ last.status = 200 /\ ~last.req.recurring
    /\ \E t \in last.before :
          /\ t.id = last.req.tx_id /\ t.user_id = last.user /\ t.recurring
          /\ SamePayload(last.req, t)
    /\ \E t \in txs : UserTxs(txs, last.user) = {t} /\ ~t.recurring /\ ~HasSeries(t)

\* C16: when the user's only transaction, a non-recurring one, is switched to
\* recurring and then back with the same date, amount and label, the user's
\* transactions are again exactly that one transaction without a series id, and a
\* list_tx that follows adds none.
C16_ToggleRoundTrip ==
    [][/\ (/\ ToggledOn
           /\ Handled("update_tx") /\ last'.status = 200
           /\ last'.user = last.user /\ last'.req.tx_id = last.req.tx_id
           /\ ~last'.req.recurring
           /\ last'.req.tx_date = last.req.tx_date
           /\ last'.req.amount = last.req.amount
           /\ last'.req.label = last.req.label)
          => /\ UserTxs(txs', last.user) = UserTxs(last.before, last.user)
             /\ Cardinality(UserTxs(txs, last.user)) = 4
       /\ (ToggledOff /\ Handled("list_tx") /\ last'.user = last.user)
          => txs' = txs]_vars

\* back to the single transaction, after the series had been generated
C16_Witness ==
    /\ ToggledOff
    /\ Cardinality(UserTxs(last.before, last.user)) = 4
    /\ UserTxs(txs, last.user) = Single

\* C17: no stored transaction has amount 0, and an add_tx or update_tx request
\* with amount 0 is answered 422 and leaves the store as it was.
C17_NonZeroAmounts ==
    [][/\ \A t \in txs' : t.amount # 0
       /\ ((Handled("add_tx") \/ Handled("update_tx")) /\ last'.req.amount = 0)
          => (last'.status = 422 /\ txs' = txs /\ nextId' = nextId)]_vars

\* an update with amount 0 was refused for a row of a series that list_tx had
\* extended
C17_Witness ==
    /\ last.op = "update_tx" /\ last.status = 422 /\ last.req.amount = 0
    /\ \E t \in txs :
          /\ t.id = last.req.tx_id /\ t.user_id = last.user /\ t.recurring
          /\ Cardinality(SeriesRows(txs, last.user, t.series_id)) > 4

----------------------------------------------------------------------------
(* Properties of the budget goal *)

\* the goals of other users and of other months than the request's
OtherGoals(G, u, m) == G \ GoalsOf(G, u, m)

\* C18: set_goal is an upsert keyed by (user, first day of the current month):
\* a user never has two goals for one month; after set_goal the user's goal of
\* the current month holds the requested amount, a goal is created only when
\* the month had none, and every other goal is left as it was; get_goal
\* reports the goal's amount, and 0 for a month with no goal.
C18_GoalUpsert ==
    [][/\ \A g, h \in goals' : (g.user_id = h.user_id /\ g.month = h.month) => g = h
       /\ Handled("set_goal") =>
             LET u == last'.user
                 m == MonthStart(today)
             IN /\ \E g \in goals' :
                      /\ GoalsOf(goals', u, m) = {g}
                      /\ g.amount = last'.req.amount
                      /\ GoalsOf(goals, u, m) # {} => g.id \in {h.id : h \in GoalsOf(goals, u, m)}
                /\ OtherGoals(goals', u, m) = OtherGoals(goals, u, m)
                /\ Cardinality(goals') =
                      Cardinality(goals) + (IF GoalsOf(goals, u, m) = {} THEN 1 ELSE 0)
       /\ Handled("get_goal") =>
             LET found == GoalsOf(goals, last'.user, MonthStart(today))
             IN /\ goals' = goals
                /\ found = {} => last'.body.amount = 0
                /\ \A g \in found : last'.body.amount = g.amount]_vars

\* set_goal was called in a new month: the user has the earlier month's goal and
\* the new one
C18_Witness ==
    /\ last.op = "set_goal"
    /\ \E g, h \in goals :
          /\ g.user_id = last.user /\ h.user_id = last.user
          /\ g.month < h.month /\ h.month = MonthStart(today)
          /\ h.amount = last.req.amount /\ g.amount # h.amount

----------------------------------------------------------------------------
(* Properties of the fallback projection *)

\* the points are the straight line through the last balance of the rows T with
\* the slope (last balance - balance at position -k-1) / k, k = min(7, len - 1)
IsNaiveTrend(points, T, days) ==
    LET running == Running(T)
        n == Len(running)
        k == IF 7 < n - 1 THEN 7 ELSE n - 1
        rise == running[n].balance - running[n - k].balance
    IN /\ Len(points) = days
       /\ \A i \in 1..Len(points) :
             points[i].predicted_balance[1] * k =
                 (running[n].balance * k + i * rise) * points[i].predicted_balance[2]

\* C19: a forecast answered for a user with at least 2 and fewer than 7 distinct
\* transaction dates is the NaiveTrend projection of the user's transactions,
\* whatever the requested model.
C19_NaiveTrend ==
    (/\ Forecasted /\ last.status = 200
     /\ DistinctDates(Caller) >= 2 /\ DistinctDates(Caller) < 7) =>
        IsNaiveTrend(last.points, Caller, last.days)

----------------------------------------------------------------------------
(* Properties of concurrent forecast calls *)

KeysOnce(c) == \A i, j \in 1..Len(c) : c[i].key = c[j].key => i = j

\* the step is the return of a computed call on thread w
Returned(w) == calls[w].state = "computed" /\ calls'[w].state = "done"

\* the cache holds one entry per key, an entry keeps its value while it is
\* stored, a call computes only when its key is not stored, and a call that
\* finds its key stored is answered with that entry
CacheSound ==
    /\ KeysOnce(cache')
    /\ \A i \in 1..Len(cache), j \in 1..Len(cache') :
          cache[i].key = cache'[j].key => cache[i].value = cache'[j].value
    /\ \A w \in Threads :
          Returned(w) /\ calls[w].out.status = 200 => CacheHas(cache', calls[w].key)
    /\ \A w \in Threads :
          (Free(w) /\ calls'[w].state = "computing") => ~CacheHas(cache, calls'[w].key)
    /\ (ops' = ops + 1 /\ calls' = calls /\ last'.op = "forecast" /\ last'.status = 200) =>
          LET key == CacheKey(last'.user, last'.days, last'.model, UserTxs(txs, last'.user))
          IN /\ CacheHas(cache, key)
             /\ ~last'.computed
             /\ last'.points = CacheGet(cache, key)

\* no step of a thread waits for the other thread: a thread that is computing
\* can compute, one that has computed can return, and a free one can look up
NoWaiting ==
    \A w \in Threads :
        /\ calls[w].state = "computing" =>
              ForecastCached(UserTxs(txs, calls[w].user), calls[w].days, calls[w].model,
                             today, ML_AVAILABLE, installed) # {}
        /\ calls[w].state = "computed" => ENABLED forecast_return(w)
        /\ (Free(w) /\ ops < MaxOps) =>
              \A u \in Users, d \in RaceDays, m \in RaceModels :
                  ENABLED forecast_lookup(w, u, d, m)

\* C20 as stated: two calls that both missed the cache on one key leave a single
\* entry for it, every call that computed returns a complete N-point result,
\* later calls with the key return the stored entry, and no call waits for
\* another.
C20_ConcurrentMisses ==
    [][/\ CacheSound
       /\ NoWaiting
       /\ \A w \in Threads :
             Returned(w) =>
                /\ last'.status = 200
                /\ Len(last'.points) = calls[w].days]_vars

\* C20 as amended: as above, but a call that computed returns a complete
\* N-point result unless its computation failed, which happens only for
\* catboost or neuralprophet whose library is not installed once the series has
\* 7 distinct dates; a failed call stores nothing.
C20_ConcurrentMissesWhenComputed ==
    [][/\ CacheSound
       /\ NoWaiting
       /\ \A w \in Threads :
             Returned(w) =>
                /\ last'.status = calls[w].out.status
                /\ last'.status = 200 =>
                      (Len(last'.points) = calls[w].days /\ last'.points = calls[w].out.points)
                /\ last'.status # 200 =>
                      /\ LibraryMissing(UserTxs(txs, calls[w].user), calls[w].model)
                      /\ cache' = cache]_vars

\* both threads missed on one key and computed different mc results of 3
\* points; one of them is stored, and a later call was answered with it
C20_Witness ==
    /\ \A w \in Threads : calls[w].state = "done" /\ calls[w].out.status = 200
    /\ calls[1].key = calls[2].key
    /\ calls[1].out.points # calls[2].out.points
    /\ Len(calls[1].out.points) = 3 /\ Len(calls[2].out.points) = 3
    /\ Len(cache) = 1 /\ cache[1].key = calls[1].key
    /\ Forecasted /\ ~last.computed /\ last.status = 200
    /\ last.points = cache[1].value

----------------------------------------------------------------------------
(* Properties of the charge scans *)

\* two distinct expenses with the same amount and category dated 1 to 3 days
\* apart
DuplicatePair(t1, t2) ==
    /\ t1.id # t2.id
    /\ t1.amount < 0 /\ t2.amount < 0
    /\ t1.amount = t2.amount /\ t1.label = t2.label
    /\ Abs(t1.tx_date - t2.tx_date) > 0 /\ Abs(t1.tx_date - t2.tx_date) <= 3

\* the duplicate_charge anomalies of the last response, by position
DuplicateReports ==
    {i \in 1..Len(last.anomalies) : last.anomalies[i].type = "duplicate_charge"}

ReportedIds(i) == {last.anomalies[i].transaction_ids[k] : k \in {1, 2}}

\* C21: with at least 10 transactions in the window, every pair of scanned
\* expenses with the same amount and category dated 1 to 3 days apart is
\* reported by exactly one duplicate_charge anomaly, and every duplicate_charge
\* anomaly names such a pair.
C21_ExactPairs ==
    (Detected /\ Cardinality(Scanned) >= MinTransactions) =>
        /\ \A t1, t2 \in Scanned :
              DuplicatePair(t1, t2) =>
                  Cardinality({i \in DuplicateReports : ReportedIds(i) = {t1.id, t2.id}}) = 1
        /\ \A i \in DuplicateReports :
              \E t1, t2 \in Scanned :
                  /\ DuplicatePair(t1, t2)
                  /\ ReportedIds(i) = {t1.id, t2.id}
                  /\ last.anomalies[i].amount = -t1.amount
                  /\ last.anomalies[i].category = t1.label

\* a charge with two partners is in two reported pairs, while two charges of the
\* same day and the pair four days apart are not reported
C21_Witness ==
    /\ Detected
    /\ Cardinality(DuplicateReports) = 2
    /\ \E t \in Scanned :
          Cardinality({i \in DuplicateReports : t.id \in ReportedIds(i)}) = 2
    /\ \E t1, t2 \in Scanned :
          /\ t1.id # t2.id /\ t1.amount = t2.amount /\ t1.label = t2.label
          /\ t1.amount < 0 /\ Abs(t1.tx_date - t2.tx_date) = 4

\* the expenses G are near-identical: any two amounts differ by less than 5
NearIdentical(G) == \A t1, t2 \in G : Abs(t1.amount - t2.amount) < 5

Earliest(G) == {t \in G : \A other \in G : t.tx_date <= other.tx_date}

Latest(G) == {t \in G : \A other \in G : other.tx_date <= t.tx_date}

\* C22: a subscription_creep anomaly for a category compares the earliest and
\* the latest member of a group of at least 3 scanned expenses of the category
\* whose amounts are within 5 of each other, and the latest exceeds the
\* earliest by more than 10%; income and expenses outside the group play no
\* part.
C22_CreepOfOneGroup ==
    Detected =>
        \A a \in Reported("subscription_creep") :
            \E G \in SUBSET {t \in Scanned : t.label = a.category /\ t.amount < 0} :
                /\ Cardinality(G) >= 3
                /\ NearIdentical(G)
                /\ \E t \in Earliest(G) : a.initial_amount = -t.amount
                /\ \E t \in Latest(G) : a.current_amount = -t.amount
                /\ a.current_amount * 10 > a.initial_amount * 11

----------------------------------------------------------------------------
(* Properties of the generation cycle *)

\* the step is a generation cycle that committed
CycleStep ==
    /\ ops' = ops + 1
    /\ Len(scores') = Len(scores) + 1
    /\ last'.op = "generate_all_insights" /\ last'.status = 200

SameKind(i, j) == i.user_id = j.user_id /\ i.type = j.type /\ i.title = j.title

\* a is less than 7 days before b, or b less than 7 days before a
Within7(a, b) == Earlier(DaysBefore(b, 7), a) /\ Earlier(DaysBefore(a, 7), b)

Added == insights' \ insights

\* the time of the cycle's existence checks
CheckedAt == last'.req.at

\* stored before the cycle, of the same kind, created in the 7 days before the check
Recent7(row) ==
    {i \in insights : SameKind(i, row) /\ Earlier(DaysBefore(CheckedAt, 7), i.created_at)}

Expired(I, u) ==
    {i \in I : i.user_id = u /\ Earlier(i.created_at, DaysBefore(CheckedAt, 30))}

\* C24: a cycle for user u that commits deletes exactly u's insights created
\* more than 30 days before it; the insights of other users and u's newer
\* insights stay as they were, flags included.
C24_PruneOwnOld ==
    [][CycleStep =>
          /\ Expired(insights', last'.user) = {}
          /\ insights \ insights' = Expired(insights, last'.user)
          /\ \A i \in insights' : i.user_id # last'.user => i \in insights]_vars

\* a cycle deleted the user's insight of 31 days ago and kept the read insight
\* of 20 days ago and the older insight of another user
C24_Witness ==
    /\ last.op = "generate_all_insights" /\ last.status = 200
    /\ \E i \in last.before \ insights : i.user_id = last.user
    /\ \E i \in last.before \cap insights : i.user_id = last.user /\ i.is_read
    /\ \E i \in last.before \cap insights :
          i.user_id # last.user /\ Earlier(i.created_at, DaysBefore(last.req.at, 30))

----------------------------------------------------------------------------
(* Properties of the insight generators *)

\* C25: generate_all_insights never raises: whatever the transactions and the
\* stored goal amount, the cycle gets the insights of all scans.
C25_NoGeneratorRaises ==
    last.op = "generate_all_insights" => last.status = 200

\* the user's transactions dated in the trailing 30 days
Trailing30(T, u, tdy) ==
    {t \in T : t.user_id = u /\ t.tx_date >= tdy - 30 /\ t.tx_date <= tdy}

Advised(generated) ==
    \E k \in 1..Len(generated) :
        /\ generated[k].type = "recommendation"
        /\ generated[k].title = <<"Set a monthly budget goal">>

\* C26: a cycle emits the 'Set a monthly budget goal' insight exactly when the
\* user has no goal for the current month and at least 10 transactions in the
\* trailing 30 days.
C26_AdviceFromTen ==
    [][CycleStep =>
          (Advised(last'.body.insights) <=>
              /\ GoalsOf(goals, last'.user, MonthStart(today)) = {}
              /\ Cardinality(Trailing30(txs, last'.user, today)) >= 10)]_vars

\* C27: the savings-rate score, the category-balance score and the
\* recommendation of a cycle are those of the user's transactions dated in the
\* trailing 30 days alone: rows dated after today change none of them.
C27_TrailingWindowOnly ==
    [][CycleStep =>
          LET u == last'.user
              window == Trailing30(txs, u, today)
              components == last'.body.health_score.components
          IN /\ components.savings_rate = SavingsRate(window, u, today)
             /\ components.category_balance \in CategoryBalance(window, u, today)
             /\ Advised(last'.body.insights) <=>
                    Recommendations(window, goals, u, today) # <<>>]_vars

\* C28: a transaction made recurring starts a series of its own: the series id
\* it receives is carried by no other transaction the user already has, also
\* when an earlier series was created within the same second.
C28_FreshSeriesId ==
    [][MadeRecurring =>
          LET original == CHOOSE t \in txs' : t.id = last'.req.tx_id
          IN \A t \in UserTxs(txs, last'.user) :
                t.id # original.id => t.series_id # original.series_id]_vars

----------------------------------------------------------------------------
(* Properties of the cache key under concurrent writes *)

\* C29: an entry enters the cache under a key whose ordinal is the latest
\* transaction date of the rows it was computed from, also when a transaction
\* is added between the read that makes the key and the read of the
\* computation.
C29_KeyOfRowsRead ==
    [][\A w \in Threads :
          (Returned(w) /\ cache' # cache) => calls[w].key[4] = calls[w].read]_vars

----------------------------------------------------------------------------
(* Properties of concurrent generation cycles *)

\* the step is the commit of the cycle on thread w
Committed(w) == calls[w].state = "checked" /\ calls'[w].state = "done"

====
